---- MODULE Spec2Model ----
(***************************************************************************)
(* hardhat-soko: the artifact store (S3 bucket and local directory), the   *)
(* publisher (pushArtifact) and the synchronizer (pull).                   *)
(*                                                                         *)
(* Strings are sequences of tokens.  A token is one character, except the  *)
(* token ".json", which stands for that five-character substring; no other *)
(* token contains a dot, so the first occurrence of ".json" in a string is *)
(* the first ".json" token of its sequence, and the byte order of strings  *)
(* is the lexicographic order of token sequences under CharRank.           *)
(* One project is modelled: the project is a fixed prefix of every key.    *)
(***************************************************************************)
EXTENDS Integers, Sequences, FiniteSets, TLC

VARIABLES
    bucket,      \* the S3 bucket: [ids, tags], each a map file name -> content
    localFs,     \* the local directory of the project: [ids, tags], same shape
    push,        \* pushArtifact runs: pusher -> locals and position
    pushes,      \* number of pushArtifact calls started
    failures,    \* number of injected infrastructure failures
    pull,        \* the pull run: its arguments, locals and position
    hist,        \* what an observer of the pull runs recorded
    diff,        \* the generateDiffWithTargetRelease run, and the one before
    sokoDir,     \* the Soko directory read by the summary generator
    build,       \* the generateReleasesSummariesAndTypings run
    hashing,     \* two contract entries, and the digests computed for them
    idCalls,     \* a document, and the ids derived from it so far
    listing,     \* the local root directory and the generateStructuredDataForArtifacts run
    classify     \* a release name, and what isSemanticVersion answered

storeVars == <<bucket, localFs, push, pushes, failures, pull, hist>>

scriptVars == <<diff, sokoDir, build>>

callVars == <<hashing, idCalls, listing, classify>>

vars == <<bucket, localFs, push, pushes, failures, pull, hist, diff, sokoDir, build,
          hashing, idCalls, listing, classify>>

\* ------------------------------------------------------------------------
\* Bounds
\* ------------------------------------------------------------------------
MaxPushes == 3
MaxFailures == 1

\* ------------------------------------------------------------------------
\* Strings
\* ------------------------------------------------------------------------
JSON == ".json"

HexDigits == <<"0", "1", "2", "3", "4", "5", "6", "7", "8", "9",
               "a", "b", "c", "d", "e", "f">>

\* Byte order of the characters in use: "." < digits < lower-case letters.
Alphabet == <<JSON>> \o HexDigits \o <<"v">>

CharRank(ch) == CHOOSE i \in 1..Len(Alphabet) : Alphabet[i] = ch

\* s < t in byte order
RECURSIVE StrLess(_, _)
StrLess(s, t) ==
    IF t = <<>> THEN FALSE
    ELSE IF s = <<>> THEN TRUE
    ELSE IF Head(s) = Head(t) THEN StrLess(Tail(s), Tail(t))
    ELSE CharRank(Head(s)) < CharRank(Head(t))

\* The strings of a set in byte order.
RECURSIVE SortStrings(_)
SortStrings(S) ==
    IF S = {} THEN <<>>
    ELSE LET m == CHOOSE x \in S : \A y \in S \ {x} : StrLess(x, y)
         IN  <<m>> \o SortStrings(S \ {m})

\* `${name}.json`
FileName(name) == name \o <<JSON>>

\* String.prototype.replace(".json", ""): the FIRST occurrence is removed.
RECURSIVE ReplaceJson(_)
ReplaceJson(s) ==
    IF s = <<>> THEN <<>>
    ELSE IF Head(s) = JSON THEN Tail(s)
    ELSE <<Head(s)>> \o ReplaceJson(Tail(s))

Range(s) == {s[i] : i \in 1..Len(s)}


\* ------------------------------------------------------------------------
\* Content addressing
\* ------------------------------------------------------------------------
\* Artifact documents (file contents).  "c1" and "c2" are valid documents.
Contents == {"c1", "c2"}

\* The leading bytes of the SHA-256 digest of each document.  The hash is
\* not computed: distinct documents are given digests that differ within the
\* bytes an id is cut from.
Sha256(c) ==
    IF c = "c1" THEN <<26, 43, 60, 77, 94, 111, 128, 145, 162>>
    ELSE IF c = "c2" THEN <<200, 17, 34, 51, 68, 85, 102, 119, 136>>
    ELSE <<9, 8, 7, 6, 5, 4, 3, 2, 1>>

\* hash.digest("hex")
RECURSIVE HexEncode(_)
HexEncode(bytes) ==
    IF bytes = <<>> THEN <<>>
    ELSE <<HexDigits[(Head(bytes) \div 16) + 1], HexDigits[(Head(bytes) % 16) + 1]>>
         \o HexEncode(Tail(bytes))

IdLength == 12

\* s.substring(0, n)
Substring0(s, n) == SubSeq(s, 1, IF Len(s) < n THEN Len(s) ELSE n)

\* pushArtifact: sha256 of the content, hex, first 12 characters
ArtifactId(content) == Substring0(HexEncode(Sha256(content)), IdLength)

\* ------------------------------------------------------------------------
\* Stores
\* ------------------------------------------------------------------------
NoFiles == [f \in {} |-> ""]

EmptyStore == [ids |-> NoFiles, tags |-> NoFiles]

\* writing a file / putting an object: creates or replaces
WriteFile(files, name, content) ==
    [f \in DOMAIN files \cup {name} |-> IF f = name THEN content ELSE files[f]]

\* S3BucketProvider.listIds / listTags: the keys under the prefix, in key
\* order, each with the prefix and the first ".json" removed.
S3ListIds(b) ==
    LET keys == SortStrings(DOMAIN b.ids)
    IN  [i \in 1..Len(keys) |-> ReplaceJson(keys[i])]

S3ListTags(b) ==
    LET keys == SortStrings(DOMAIN b.tags)
    IN  [i \in 1..Len(keys) |-> ReplaceJson(keys[i])]

\* mutant: the tag is reported present whatever the bucket holds
HasArtifactByTagMutantAlways(b, tag) == TRUE

\* S3BucketProvider.hasArtifactByTag: GetObject on the exact key
HasArtifactByTag(b, tag) == FileName(tag) \in DOMAIN b.tags

HasArtifactById(b, id) == FileName(id) \in DOMAIN b.ids

\* mutant: the PutObject command is sent without its Body
PutIdObjectMutantNoBody(b, id, content) ==
    [b EXCEPT !.ids = WriteFile(@, FileName(id), "")]

\* S3BucketProvider.uploadArtifact, first call: PutObject under the id key
PutIdObject(b, id, content) ==
    [b EXCEPT !.ids = WriteFile(@, FileName(id), content)]

\* mutant: an existing tag object is left as it is
CopyToTagObjectMutantKeep(b, id, tag) ==
    IF FileName(tag) \in DOMAIN b.tags THEN b
    ELSE [b EXCEPT !.tags = WriteFile(@, FileName(tag), b.ids[FileName(id)])]

\* S3BucketProvider.uploadArtifact, second call: CopyObject from the id key
\* to the tag key (the copy takes what the id key holds in the bucket).
CopyToTagObject(b, id, tag) ==
    [b EXCEPT !.tags = WriteFile(@, FileName(tag), b.ids[FileName(id)])]

\* S3BucketProvider.downloadArtifactById / ByTag: GetObject on the exact key
CanDownloadById(b, id) == FileName(id) \in DOMAIN b.ids

DownloadArtifactById(b, id) == b.ids[FileName(id)]

CanDownloadByTag(b, tag) == FileName(tag) \in DOMAIN b.tags

DownloadArtifactByTag(b, tag) == b.tags[FileName(tag)]

\* ------------------------------------------------------------------------
\* pushArtifact
\* ------------------------------------------------------------------------
\* `tag: string | undefined`: the empty string stands for undefined (both are
\* falsy in `if (tag)`).
NoTag == <<>>

\* Tag names given to pushArtifact.  Any non-empty string is accepted.
TagNames ==
    { <<"v">>,
      <<JSON, JSON, "b">>,
      <<JSON, "b", JSON>>,
      <<"b", JSON, JSON>>,
      ArtifactId("c1") }

\* An entry of a directory: a file with its content, or a directory.
FileEntry(name, data) == [type |-> "file", name |-> name, data |-> data]

DirectoryEntry(name) == [type |-> "directory", name |-> name, data |-> "none"]

\* What lies at a path: nothing, a file (whether its name ends with ".json",
\* and its content), or a directory (its entries, and the entries of its
\* build-info folder when it has one).
NoPath ==
    [stat |-> "missing", json |-> FALSE, data |-> "none", entries |-> <<>>,
     buildInfo |-> <<>>]

FilePath(json, data) ==
    [stat |-> "file", json |-> json, data |-> data, entries |-> <<>>, buildInfo |-> <<>>]

DirectoryPath(entries, buildInfo) ==
    [stat |-> "directory", json |-> FALSE, data |-> "none", entries |-> entries,
     buildInfo |-> buildInfo]

\* What lies at the artifact path given to pushArtifact.
ArtifactPaths ==
    { NoPath,
      FilePath(FALSE, "c1"),
      FilePath(TRUE, "invalid"),
      FilePath(TRUE, "c1"),
      FilePath(TRUE, "c2"),
      DirectoryPath(<<>>, <<>>),
      DirectoryPath(<<FileEntry(<<"a", JSON>>, "c1"), FileEntry(<<"b", JSON>>, "c2")>>, <<>>),
      DirectoryPath(<<FileEntry(<<"a">>, "c1")>>, <<>>),
      DirectoryPath(<<DirectoryEntry(<<"build-info">>), FileEntry(<<"a">>, "c1")>>,
                    <<FileEntry(<<"b", JSON>>, "c2")>>) }

\* entry.name.endsWith(".json")
EndsWithJson(name) == name # <<>> /\ name[Len(name)] = JSON

\* lines 214-223: the file is read, parsed and validated; a rejection of
\* one of these is thrown
ReadBuildInfo(entry) ==
    IF entry.type # "file" \/ entry.data \notin Contents
    THEN [status |-> "rejected", content |-> "none"]
    ELSE [status |-> "success", content |-> entry.data]

\* mutant: of several candidates the first is taken
CheckCompilationArtifactsFolderMutantFirst(entries) ==
    IF entries = <<>> THEN [status |-> "rejected", content |-> "none"]
    ELSE ReadBuildInfo(entries[1])

\* checkCompilationArtifactsFolder, and the read of the entry it names:
\* with no entry, entries[0].name throws a TypeError
CheckCompilationArtifactsFolder(entries) ==
    IF Len(entries) > 1 THEN [status |-> "error", content |-> "none"]
    ELSE IF entries = <<>> THEN [status |-> "rejected", content |-> "none"]
    ELSE ReadBuildInfo(entries[1])

\* retrieveFreshCompilationArtifact: "error" is a returned error status,
\* "rejected" a rejected promise (the file does not parse as a build info).
RetrieveFreshCompilationArtifact(path) ==
    IF path.stat = "missing" THEN [status |-> "error", content |-> "none"]
    ELSE IF path.stat = "file"
    THEN IF ~path.json THEN [status |-> "error", content |-> "none"]
         ELSE ReadBuildInfo(FileEntry(<<JSON>>, path.data))
    ELSE IF path.stat = "directory"
    THEN LET onlyJson == \A i \in DOMAIN path.entries :
                            /\ path.entries[i].type = "file"
                            /\ EndsWithJson(path.entries[i].name)
             hasBuildInfoFolder == \E i \in DOMAIN path.entries :
                            /\ path.entries[i].type = "directory"
                            /\ path.entries[i].name = <<"build-info">>
         IN  IF hasBuildInfoFolder THEN CheckCompilationArtifactsFolder(path.buildInfo)
             ELSE IF onlyJson THEN CheckCompilationArtifactsFolder(path.entries)
             ELSE [status |-> "error", content |-> "none"]
    ELSE [status |-> "error", content |-> "none"]

Pushers == {1}

NoId == <<>>

IdlePush ==
    [pc |-> "idle", tag |-> NoTag, force |-> FALSE, path |-> NoPath,
     content |-> "none", artifactId |-> NoId, error |-> "none",
     before |-> EmptyStore]

\* pushArtifact is called.
PushCall(p) ==
    /\ push[p].pc \in {"idle", "returned", "thrown"}
    /\ pushes < MaxPushes
    /\ \E path \in ArtifactPaths, tag \in TagNames \cup {NoTag}, force \in BOOLEAN :
          push' = [push EXCEPT ![p] =
                      [pc |-> "load", tag |-> tag, force |-> force, path |-> path,
                       content |-> "none", artifactId |-> NoId, error |-> "none",
                       before |-> bucket]]
    /\ pushes' = pushes + 1
    /\ UNCHANGED <<callVars, scriptVars, bucket, localFs, failures, pull, hist>>

\* lines 20-34, and 36 and 60-63 up to the next await
PushLoad(p) ==
    /\ push[p].pc = "load"
    /\ LET q == push[p]
           r == RetrieveFreshCompilationArtifact(q.path)
       IN  push' = [push EXCEPT ![p] =
              IF r.status # "success"
              THEN [q EXCEPT !.pc = "thrown", !.error = "retrieve"]
              ELSE IF q.tag # NoTag
              THEN [q EXCEPT !.pc = "hasTag", !.content = r.content]
              ELSE [q EXCEPT !.pc = "putId", !.content = r.content,
                             !.artifactId = ArtifactId(r.content)]]
    /\ UNCHANGED <<callVars, scriptVars, bucket, localFs, pushes, failures, pull, hist>>

\* mutant: the force flag is read the wrong way round
TagConflictMutantForced(exists, force) == exists /\ force

\* lines 46-57: an existing tag is a conflict unless the push is forced
TagConflict(exists, force) == exists /\ ~force

\* lines 37-63: the tag check answers
PushHasTag(p) ==
    /\ push[p].pc = "hasTag"
    /\ LET q == push[p]
       IN  push' = [push EXCEPT ![p] =
              IF TagConflict(HasArtifactByTag(bucket, q.tag), q.force)
              THEN [q EXCEPT !.pc = "thrown", !.error = "conflict"]
              ELSE [q EXCEPT !.pc = "putId", !.artifactId = ArtifactId(q.content)]]
    /\ UNCHANGED <<callVars, scriptVars, bucket, localFs, pushes, failures, pull, hist>>

\* lines 41-45: the tag check fails
PushHasTagFails(p) ==
    /\ push[p].pc = "hasTag"
    /\ failures < MaxFailures
    /\ failures' = failures + 1
    /\ push' = [push EXCEPT ![p].pc = "thrown", ![p].error = "hasTag"]
    /\ UNCHANGED <<callVars, scriptVars, bucket, localFs, pushes, pull, hist>>

\* uploadArtifact lines 134-141: the id object is put
PushPutId(p) ==
    /\ push[p].pc = "putId"
    /\ bucket' = PutIdObject(bucket, push[p].artifactId, push[p].content)
    /\ push' = [push EXCEPT ![p].pc =
                   IF push[p].tag # NoTag THEN "copyTag" ELSE "returned"]
    /\ UNCHANGED <<callVars, scriptVars, localFs, pushes, failures, pull, hist>>

\* uploadArtifact lines 143-150: the tag object is copied from the id object
PushCopyTag(p) ==
    /\ push[p].pc = "copyTag"
    /\ bucket' = CopyToTagObject(bucket, push[p].artifactId, push[p].tag)
    /\ push' = [push EXCEPT ![p].pc = "returned"]
    /\ UNCHANGED <<callVars, scriptVars, localFs, pushes, failures, pull, hist>>

\* mutant: a failed upload puts the bucket back as it was at the call
PushUploadFailsMutantRollsBack(p) ==
    /\ push[p].pc \in {"putId", "copyTag"}
    /\ failures < MaxFailures
    /\ failures' = failures + 1
    /\ bucket' = push[p].before
    /\ push' = [push EXCEPT ![p].pc = "thrown", ![p].error = "upload"]
    /\ UNCHANGED <<callVars, scriptVars, localFs, pushes, pull, hist>>

\* a PutObject or CopyObject call fails: lines 75-79
PushUploadFails(p) ==
    /\ push[p].pc \in {"putId", "copyTag"}
    /\ failures < MaxFailures
    /\ failures' = failures + 1
    /\ push' = [push EXCEPT ![p].pc = "thrown", ![p].error = "upload"]
    /\ UNCHANGED <<callVars, scriptVars, bucket, localFs, pushes, pull, hist>>

\* ------------------------------------------------------------------------
\* LocalStorageProvider
\* ------------------------------------------------------------------------
\* listTags / listIds as pull reads them: the names of the files of the
\* directory, each with its first ".json" removed, collected into a Set.
LocalListTags(fs) == {ReplaceJson(f) : f \in DOMAIN fs.tags}

LocalListIds(fs) == {ReplaceJson(f) : f \in DOMAIN fs.ids}

\* listTags / listIds then stat `${name}.json` for every name found and
\* reject when one of these files does not exist.
StatsAnswer(files) == \A f \in DOMAIN files : FileName(ReplaceJson(f)) \in DOMAIN files

LocalListingAnswers(fs) == StatsAnswer(fs.tags) /\ StatsAnswer(fs.ids)

\* createArtifactByTag / createArtifactById: fs.writeFile on `${name}.json`
CreateArtifactByTag(fs, tag, content) ==
    [fs EXCEPT !.tags = WriteFile(@, FileName(tag), content)]

CreateArtifactById(fs, id, content) ==
    [fs EXCEPT !.ids = WriteFile(@, FileName(id), content)]

CreateArtifact(fs, kind, name, content) ==
    IF kind = "tags" THEN CreateArtifactByTag(fs, name, content)
    ELSE CreateArtifactById(fs, name, content)

\* What a file holds when the write of a stream stopped before its end.
Truncated == "truncated"

\* ------------------------------------------------------------------------
\* pull
\* ------------------------------------------------------------------------
\* `tagOrId: string | undefined`: the empty string stands for undefined.
NoSelector == <<>>

Selectors == TagNames \cup {ArtifactId(c) : c \in Contents}

NoResult ==
    [remoteTags |-> <<>>, remoteIds |-> <<>>, pulledTags |-> <<>>,
     pulledIds |-> <<>>, failedTags |-> <<>>, failedIds |-> <<>>]

IdlePull ==
    [pc |-> "idle", tagOrId |-> NoSelector, force |-> FALSE,
     remoteTags |-> <<>>, remoteIds |-> <<>>,
     tagsToDownload |-> <<>>, idsToDownload |-> <<>>,
     localTags |-> {}, localIds |-> {},
     filteredTagsToDownload |-> <<>>, filteredIdsToDownload |-> <<>>,
     tagsPromises |-> <<>>, idsPromises |-> <<>>,
     result |-> NoResult, error |-> "none"]

NoRun == [pc |-> "idle"]

InitHist ==
    [prev |-> NoRun, localBefore |-> EmptyStore,
     bucketBefore |-> EmptyStore, downloads |-> {}, writes |-> {},
     settled |-> <<>>, failedDownloads |-> {}]

\* the observer keeps the first two items that settled, in that order
Settled(settled, item) == IF Len(settled) < 2 THEN Append(settled, item) ELSE settled

\* a dispatched download-then-create promise
Dispatched == [state |-> "download", value |-> "none"]

Dispatch(names) == [i \in 1..Len(names) |-> Dispatched]

\* mutant: the ids are looked up even when the selector matched a tag
ResolveIdsMutantNoElse(tagOrId, remoteTags, remoteIds) ==
    IF tagOrId # NoSelector
    THEN IF tagOrId \in Range(remoteIds) THEN <<tagOrId>> ELSE <<>>
    ELSE remoteIds

\* lines 38-51: the candidates, or "notFound"
ResolveTags(tagOrId, remoteTags, remoteIds) ==
    IF tagOrId # NoSelector
    THEN IF tagOrId \in Range(remoteTags) THEN <<tagOrId>> ELSE <<>>
    ELSE remoteTags

ResolveIds(tagOrId, remoteTags, remoteIds) ==
    IF tagOrId # NoSelector
    THEN IF tagOrId \in Range(remoteTags) THEN <<>>
         ELSE IF tagOrId \in Range(remoteIds) THEN <<tagOrId>> ELSE <<>>
    ELSE remoteIds

Unresolved(tagOrId, remoteTags, remoteIds) ==
    /\ tagOrId # NoSelector
    /\ tagOrId \notin Range(remoteTags)
    /\ tagOrId \notin Range(remoteIds)

\* mutant: the filter keeps what is present instead of what is missing
FilterMissingMutantKeepsPresent(names, localNames) ==
    SelectSeq(names, LAMBDA n : n \in localNames)

\* lines 84-87: what is left to download given the local listing
FilterMissing(names, localNames) ==
    SelectSeq(names, LAMBDA n : n \notin localNames)

\* mutant: the early return reports the candidates as the remote listing
AfterFilteringMutantCandidates(q, tags, ids) ==
    IF tags = <<>> /\ ids = <<>>
    THEN [q EXCEPT !.pc = "returned",
                   !.filteredTagsToDownload = tags,
                   !.filteredIdsToDownload = ids,
                   !.result = [NoResult EXCEPT !.remoteTags = q.tagsToDownload,
                                               !.remoteIds = q.idsToDownload]]
    ELSE [q EXCEPT !.pc = "settling",
                   !.filteredTagsToDownload = tags,
                   !.filteredIdsToDownload = ids,
                   !.tagsPromises = Dispatch(tags),
                   !.idsPromises = Dispatch(ids)]

\* lines 90-153: nothing to download returns at once, otherwise every
\* download is dispatched
AfterFiltering(q, tags, ids) ==
    IF tags = <<>> /\ ids = <<>>
    THEN [q EXCEPT !.pc = "returned",
                   !.filteredTagsToDownload = tags,
                   !.filteredIdsToDownload = ids,
                   !.result = [NoResult EXCEPT !.remoteTags = q.remoteTags,
                                               !.remoteIds = q.remoteIds]]
    ELSE [q EXCEPT !.pc = "settling",
                   !.filteredTagsToDownload = tags,
                   !.filteredIdsToDownload = ids,
                   !.tagsPromises = Dispatch(tags),
                   !.idsPromises = Dispatch(ids)]

\* lines 156-175: names[i] for the promises in one of the given states, in
\* the order of names
RECURSIVE Settlements(_, _, _, _)
Settlements(names, promises, states, i) ==
    IF i > Len(names) THEN <<>>
    ELSE (IF promises[i].state \in states THEN <<names[i]>> ELSE <<>>)
         \o Settlements(names, promises, states, i + 1)

\* mutant: the pulled items are listed from the last candidate to the first
PulledOfMutantReversed(names, promises) ==
    LET pulled == Settlements(names, promises, {"fulfilled"}, 1)
    IN  [i \in DOMAIN pulled |-> pulled[Len(pulled) - i + 1]]

PulledOf(names, promises) == Settlements(names, promises, {"fulfilled"}, 1)

FailedOf(names, promises) == Settlements(names, promises, {"rejected"}, 1)

\* pull is called.
PullCall ==
    /\ \/ pull.pc = "idle"
       \/ pull.pc \in {"returned", "thrown"} /\ hist.prev = NoRun
    /\ \E tagOrId \in Selectors \cup {NoSelector}, force \in BOOLEAN :
          pull' = [IdlePull EXCEPT !.pc = "listRemote", !.tagOrId = tagOrId,
                                   !.force = force]
    /\ hist' = [prev |-> IF pull.pc = "idle" THEN NoRun ELSE pull,
                localBefore |-> localFs, bucketBefore |-> bucket,
                downloads |-> {}, writes |-> {},
                settled |-> <<>>, failedDownloads |-> {}]
    /\ UNCHANGED <<callVars, scriptVars, bucket, localFs, push, pushes, failures>>

\* lines 23-57: the remote listing answers; candidates are resolved
PullListRemote ==
    /\ pull.pc = "listRemote"
    /\ LET remoteTags == S3ListTags(bucket)
           remoteIds == S3ListIds(bucket)
           tags == ResolveTags(pull.tagOrId, remoteTags, remoteIds)
           ids == ResolveIds(pull.tagOrId, remoteTags, remoteIds)
           q == [pull EXCEPT !.remoteTags = remoteTags, !.remoteIds = remoteIds]
       IN  pull' =
             IF Unresolved(pull.tagOrId, remoteTags, remoteIds)
             THEN [q EXCEPT !.pc = "thrown", !.error = "notFound"]
             ELSE IF pull.force
             THEN AfterFiltering([q EXCEPT !.tagsToDownload = tags,
                                           !.idsToDownload = ids], tags, ids)
             ELSE [q EXCEPT !.pc = "listLocal", !.tagsToDownload = tags,
                            !.idsToDownload = ids]
    /\ UNCHANGED <<callVars, scriptVars, bucket, localFs, push, pushes, failures, hist>>

\* lines 30-32
PullListRemoteFails ==
    /\ pull.pc = "listRemote"
    /\ failures < MaxFailures
    /\ failures' = failures + 1
    /\ pull' = [pull EXCEPT !.pc = "thrown", !.error = "remoteListing"]
    /\ UNCHANGED <<callVars, scriptVars, bucket, localFs, push, pushes, hist>>

\* lines 59-102: the local listing answers; present items are filtered out
PullListLocal ==
    /\ pull.pc = "listLocal"
    /\ LocalListingAnswers(localFs)
    /\ LET localTags == LocalListTags(localFs)
           localIds == LocalListIds(localFs)
           q == [pull EXCEPT !.localTags = localTags, !.localIds = localIds]
       IN  pull' = AfterFiltering(q, FilterMissing(pull.tagsToDownload, localTags),
                                  FilterMissing(pull.idsToDownload, localIds))
    /\ UNCHANGED <<callVars, scriptVars, bucket, localFs, push, pushes, failures, hist>>

\* lines 78-80: a stat of the listing rejects, or the listing fails otherwise
PullListLocalFails ==
    /\ pull.pc = "listLocal"
    /\ \/ ~LocalListingAnswers(localFs) /\ failures' = failures
       \/ failures < MaxFailures /\ failures' = failures + 1
    /\ pull' = [pull EXCEPT !.pc = "thrown", !.error = "localListing"]
    /\ UNCHANGED <<callVars, scriptVars, bucket, localFs, push, pushes, hist>>

PromisesOf(q, kind) == IF kind = "tags" THEN q.tagsPromises ELSE q.idsPromises

NamesOf(q, kind) ==
    IF kind = "tags" THEN q.filteredTagsToDownload ELSE q.filteredIdsToDownload

SetPromise(q, kind, i, promise) ==
    IF kind = "tags" THEN [q EXCEPT !.tagsPromises[i] = promise]
    ELSE [q EXCEPT !.idsPromises[i] = promise]

Kinds == {"tags", "ids"}

\* lines 113-116 and 136-139: the GetObject of item i answers
PullDownloaded(kind, i) ==
    /\ pull.pc = "settling"
    /\ i \in DOMAIN PromisesOf(pull, kind)
    /\ PromisesOf(pull, kind)[i].state = "download"
    /\ FileName(NamesOf(pull, kind)[i]) \in DOMAIN bucket[kind]
    /\ pull' = SetPromise(pull, kind, i,
                  [state |-> "create",
                   value |-> bucket[kind][FileName(NamesOf(pull, kind)[i])]])
    /\ hist' = [hist EXCEPT !.downloads = @ \cup {<<kind, NamesOf(pull, kind)[i]>>}]
    /\ UNCHANGED <<callVars, scriptVars, bucket, localFs, push, pushes, failures>>

\* lines 117-119 and 140-142: the key does not exist
PullDownloadNoSuchKey(kind, i) ==
    /\ pull.pc = "settling"
    /\ i \in DOMAIN PromisesOf(pull, kind)
    /\ PromisesOf(pull, kind)[i].state = "download"
    /\ FileName(NamesOf(pull, kind)[i]) \notin DOMAIN bucket[kind]
    /\ pull' = SetPromise(pull, kind, i, [state |-> "rejected", value |-> "none"])
    /\ hist' = [hist EXCEPT !.downloads = @ \cup {<<kind, NamesOf(pull, kind)[i]>>},
                             !.settled = Settled(@, <<kind, NamesOf(pull, kind)[i]>>),
                             !.failedDownloads = @ \cup {<<kind, NamesOf(pull, kind)[i]>>}]
    /\ UNCHANGED <<callVars, scriptVars, bucket, localFs, push, pushes, failures>>

\* mutant: a failed download is thrown out of pull
PullDownloadFailsMutantThrows(kind, i) ==
    /\ pull.pc = "settling"
    /\ i \in DOMAIN PromisesOf(pull, kind)
    /\ PromisesOf(pull, kind)[i].state = "download"
    /\ failures < MaxFailures
    /\ failures' = failures + 1
    /\ pull' = [pull EXCEPT !.pc = "thrown", !.error = "download"]
    /\ hist' = [hist EXCEPT !.downloads = @ \cup {<<kind, NamesOf(pull, kind)[i]>>}]
    /\ UNCHANGED <<callVars, scriptVars, bucket, localFs, push, pushes>>

\* lines 117-119 and 140-142: the GetObject call fails
PullDownloadFails(kind, i) ==
    /\ pull.pc = "settling"
    /\ i \in DOMAIN PromisesOf(pull, kind)
    /\ PromisesOf(pull, kind)[i].state = "download"
    /\ failures < MaxFailures
    /\ failures' = failures + 1
    /\ pull' = SetPromise(pull, kind, i, [state |-> "rejected", value |-> "none"])
    /\ hist' = [hist EXCEPT !.downloads = @ \cup {<<kind, NamesOf(pull, kind)[i]>>},
                             !.settled = Settled(@, <<kind, NamesOf(pull, kind)[i]>>),
                             !.failedDownloads = @ \cup {<<kind, NamesOf(pull, kind)[i]>>}]
    /\ UNCHANGED <<callVars, scriptVars, bucket, localFs, push, pushes>>

\* lines 121-133 and 144-152: the downloaded stream is written to the file
PullCreated(kind, i) ==
    /\ pull.pc = "settling"
    /\ i \in DOMAIN PromisesOf(pull, kind)
    /\ PromisesOf(pull, kind)[i].state = "create"
    /\ localFs' = CreateArtifact(localFs, kind, NamesOf(pull, kind)[i],
                                 PromisesOf(pull, kind)[i].value)
    /\ pull' = SetPromise(pull, kind, i,
                  [state |-> "fulfilled", value |-> PromisesOf(pull, kind)[i].value])
    /\ hist' = [hist EXCEPT !.writes = @ \cup {<<kind, FileName(NamesOf(pull, kind)[i])>>},
                             !.settled = Settled(@, <<kind, NamesOf(pull, kind)[i]>>)]
    /\ UNCHANGED <<callVars, scriptVars, bucket, push, pushes, failures>>

\* lines 125-127 and 148-150: fs.writeFile fails, before it opened the file
\* or after it truncated it
PullCreateFails(kind, i) ==
    /\ pull.pc = "settling"
    /\ i \in DOMAIN PromisesOf(pull, kind)
    /\ PromisesOf(pull, kind)[i].state = "create"
    /\ failures < MaxFailures
    /\ failures' = failures + 1
    /\ \/ /\ localFs' = localFs
          /\ hist' = [hist EXCEPT !.settled = Settled(@, <<kind, NamesOf(pull, kind)[i]>>)]
       \/ /\ localFs' = CreateArtifact(localFs, kind, NamesOf(pull, kind)[i], Truncated)
          /\ hist' = [hist EXCEPT !.writes =
                         @ \cup {<<kind, FileName(NamesOf(pull, kind)[i])>>},
                                   !.settled = Settled(@, <<kind, NamesOf(pull, kind)[i]>>)]
    /\ pull' = SetPromise(pull, kind, i, [state |-> "rejected", value |-> "none"])
    /\ UNCHANGED <<callVars, scriptVars, bucket, push, pushes>>

\* mutant: Promise.all instead of Promise.allSettled, over at the first
\* rejection
AllSettledMutantAll(promises) ==
    \/ \A i \in DOMAIN promises : promises[i].state \in {"fulfilled", "rejected"}
    \/ \E i \in DOMAIN promises : promises[i].state = "rejected"

AllSettled(promises) ==
    \A i \in DOMAIN promises : promises[i].state \in {"fulfilled", "rejected"}

\* lines 155-184: both Promise.allSettled are over; the result is returned
PullReturn ==
    /\ pull.pc = "settling"
    /\ AllSettled(pull.tagsPromises)
    /\ AllSettled(pull.idsPromises)
    /\ pull' = [pull EXCEPT
          !.pc = "returned",
          !.result =
             [remoteTags |-> pull.remoteTags,
              remoteIds |-> pull.remoteIds,
              pulledTags |-> PulledOf(pull.filteredTagsToDownload, pull.tagsPromises),
              pulledIds |-> PulledOf(pull.filteredIdsToDownload, pull.idsPromises),
              failedTags |-> FailedOf(pull.filteredTagsToDownload, pull.tagsPromises),
              failedIds |-> FailedOf(pull.filteredIdsToDownload, pull.idsPromises)]]
    /\ UNCHANGED <<callVars, scriptVars, bucket, localFs, push, pushes, failures, hist>>

PullNext ==
    \/ PullCall
    \/ PullListRemote
    \/ PullListRemoteFails
    \/ PullListLocal
    \/ PullListLocalFails
    \/ \E kind \in Kinds : \E i \in DOMAIN PromisesOf(pull, kind) : PullDownloaded(kind, i)
    \/ \E kind \in Kinds : \E i \in DOMAIN PromisesOf(pull, kind) : PullDownloadNoSuchKey(kind, i)
    \/ \E kind \in Kinds : \E i \in DOMAIN PromisesOf(pull, kind) : PullDownloadFails(kind, i)
    \/ \E kind \in Kinds : \E i \in DOMAIN PromisesOf(pull, kind) : PullCreated(kind, i)
    \/ \E kind \in Kinds : \E i \in DOMAIN PromisesOf(pull, kind) : PullCreateFails(kind, i)
    \/ PullReturn

\* ------------------------------------------------------------------------
\* generateDiffWithTargetRelease
\* ------------------------------------------------------------------------
\* The "@@@@" of formKey, one token of a string.  No other token holds "@".
SEPARATOR == "@@@@"

\* The contracts of the build info documents, as (path, name): an ordinary
\* one, one whose path holds the separator, one whose name holds it, and
\* one with the empty path.  ZBuildInfo accepts any string as path and name.
ContractIds ==
    { [path |-> <<"c">>, name |-> <<"b">>],
      [path |-> <<"a", SEPARATOR, "b">>, name |-> <<"c">>],
      [path |-> <<"a">>, name |-> <<"b", SEPARATOR, "c">>],
      [path |-> <<>>, name |-> <<"b">>] }

\* An abi item of ZContractInfo: its name, and its other fields as one
\* value.
AbiItem(name, inputs) == [name |-> name, inputs |-> inputs]

\* ZContractInfo: the abi, evm.bytecode.object, the rest of evm as one
\* value, and the metadata.
ContractInfo(abi, object, opcodes, metadata) ==
    [abi |-> abi, bytecode |-> object, opcodes |-> opcodes, metadata |-> metadata]

ContractInfos ==
    { ContractInfo(<<AbiItem("g", "none"), AbiItem("f", "none")>>, "x", "o", "m"),
      ContractInfo(<<AbiItem("f", "none"), AbiItem("g", "none"), AbiItem("f", "none")>>,
                   "y", "o", "m") }

\* the names of the abi items, in the order of localeCompare
AbiNames == <<"f", "g">>

\* contract.abi.sort by name: a stable sort
RECURSIVE SortAbi(_, _)
SortAbi(abi, i) ==
    IF i > Len(AbiNames) THEN <<>>
    ELSE SelectSeq(abi, LAMBDA item : item.name = AbiNames[i]) \o SortAbi(abi, i + 1)

\* hashContract: the digest of the sorted abi items, the bytecode object
\* and the metadata, fed in this order; the digest is written as the
\* stream it was computed from.
HashContract(contract) ==
    SortAbi(contract.abi, 1) \o <<contract.bytecode>> \o <<contract.metadata>>

FormKey(contractPath, contractName) ==
    contractPath \o <<SEPARATOR>> \o contractName

\* key.split(SEPARATOR)
RECURSIVE Split(_)
Split(key) ==
    IF key = <<>> THEN << <<>> >>
    ELSE LET rest == Split(Tail(key))
         IN  IF Head(key) = SEPARATOR THEN << <<>> >> \o rest
             ELSE << <<Head(key)>> \o Head(rest) >> \o Tail(rest)

\* parseKey: the first two elements of the split; it throws when one of
\* them is missing or empty
ParseKeyThrows(key) ==
    LET elements == Split(key)
    IN  \/ elements[1] = <<>>
        \/ Len(elements) < 2
        \/ elements[2] = <<>>

ParseKey(key) ==
    LET elements == Split(key)
    IN  [contractPath |-> elements[1], contractName |-> elements[2]]

\* A build info document: its contracts in document order, no (path, name)
\* twice, the contracts of a path next to each other.
MaxContracts == 2

ContractEntries ==
    [path : {c.path : c \in ContractIds}, name : {c.name : c \in ContractIds},
     info : ContractInfos]

RECURSIVE DocsOfLength(_)
DocsOfLength(n) ==
    IF n = 0 THEN {<<>>}
    ELSE { Append(d, e) : d \in DocsOfLength(n - 1),
                          e \in {x \in ContractEntries :
                                   [path |-> x.path, name |-> x.name] \in ContractIds} }

BuildInfos ==
    { d \in UNION {DocsOfLength(n) : n \in 0..MaxContracts} :
        /\ \A i, j \in DOMAIN d :
              (d[i].path = d[j].path /\ d[i].name = d[j].name) => i = j
        /\ \A i, j, k \in DOMAIN d :
              (i < j /\ j < k /\ d[i].path = d[k].path) => d[j].path = d[i].path }

\* a file that is not a build info (JSON.parse or ZBuildInfo rejects it),
\* and no file at all
InvalidBuildInfo == [kind |-> "invalid", contracts |-> <<>>]

MissingBuildInfo == [kind |-> "missing", contracts |-> <<>>]

ValidBuildInfos == {[kind |-> "buildInfo", contracts |-> d] : d \in BuildInfos}

BuildInfoFiles == ValidBuildInfos \cup {InvalidBuildInfo, MissingBuildInfo}

\* Map<string, string>, as its entries in insertion order
MapHas(map, key) == \E i \in DOMAIN map : map[i].key = key

MapGet(map, key) == map[CHOOSE i \in DOMAIN map : map[i].key = key].hash

MapSet(map, key, hash) ==
    IF MapHas(map, key)
    THEN [i \in DOMAIN map |-> IF map[i].key = key THEN [key |-> key, hash |-> hash]
                                ELSE map[i]]
    ELSE Append(map, [key |-> key, hash |-> hash])

\* generateContractHashes of a valid document, from its i-th contract on
RECURSIVE ContractHashesFrom(_, _, _)
ContractHashesFrom(doc, i, map) ==
    IF i > Len(doc) THEN map
    ELSE ContractHashesFrom(doc, i + 1,
            MapSet(map, FormKey(doc[i].path, doc[i].name), HashContract(doc[i].info)))

GenerateContractHashes(doc) == ContractHashesFrom(doc, 1, <<>>)

\* a Difference
Difference(key, status) ==
    [path |-> ParseKey(key).contractPath, name |-> ParseKey(key).contractName,
     status |-> status]

\* lines 161-170: every key of the fresh map is reported as added
AllAdded(virtual) == [i \in DOMAIN virtual |-> Difference(virtual[i].key, "added")]

\* lines 194-214: the keys of the fresh map that the target map does not
\* hold, or holds with another hash
AddedOrChanged(virtual, target) ==
    LET found == SelectSeq(virtual, LAMBDA e :
                     ~MapHas(target, e.key) \/ MapGet(target, e.key) # e.hash)
    IN  [i \in DOMAIN found |->
            Difference(found[i].key,
                       IF ~MapHas(target, found[i].key) THEN "added" ELSE "changed")]

\* mutant: the second loop does not look the key up in the fresh map
RemovedMutantEveryKey(virtual, target) ==
    [i \in DOMAIN target |-> Difference(target[i].key, "removed")]

\* lines 216-225: the keys of the target map that the fresh map does not hold
Removed(virtual, target) ==
    LET found == SelectSeq(target, LAMBDA e : ~MapHas(virtual, e.key))
    IN  [i \in DOMAIN found |-> Difference(found[i].key, "removed")]

\* parseKey is called on every fresh key (line 198) and on every key that
\* only the target holds (line 218)
CompareThrows(virtual, target) ==
    \/ \E i \in DOMAIN virtual : ParseKeyThrows(virtual[i].key)
    \/ \E i \in DOMAIN target :
          ~MapHas(virtual, target[i].key) /\ ParseKeyThrows(target[i].key)

NoDiffRun == [pc |-> "idle"]

IdleDiff ==
    [pc |-> "idle", fresh |-> MissingBuildInfo, target |-> MissingBuildInfo,
     virtualHashes |-> <<>>, targetHashes |-> <<>>,
     differences |-> <<>>, error |-> "none", prev |-> NoDiffRun]

\* generateDiffWithTargetRelease is called: on any fresh build info and any
\* target release, or a second time with the two documents exchanged
DiffCall ==
    /\ \/ /\ diff.pc = "idle"
          /\ \E fresh \in BuildInfoFiles, target \in BuildInfoFiles :
                diff' = [IdleDiff EXCEPT !.pc = "fresh", !.fresh = fresh,
                                         !.target = target]
       \/ /\ diff.pc \in {"returned", "thrown"}
          /\ diff.prev = NoDiffRun
          /\ diff.fresh \in ValidBuildInfos /\ diff.target \in ValidBuildInfos
          /\ diff' = [IdleDiff EXCEPT !.pc = "fresh", !.fresh = diff.target,
                                      !.target = diff.fresh,
                                      !.prev = [diff EXCEPT !.prev = NoDiffRun]]
    /\ UNCHANGED <<callVars, storeVars, sokoDir, build>>

\* lines 134-150: the fresh build info is retrieved and hashed
DiffFreshHashes ==
    /\ diff.pc = "fresh"
    /\ diff' = IF diff.fresh \notin ValidBuildInfos
               THEN [diff EXCEPT !.pc = "thrown", !.error = "freshBuildInfo"]
               ELSE [diff EXCEPT !.pc = "stat",
                                 !.virtualHashes = GenerateContractHashes(diff.fresh.contracts)]
    /\ UNCHANGED <<callVars, storeVars, sokoDir, build>>

\* lines 152-171: the target release is not there
DiffTargetMissing ==
    /\ diff.pc = "stat"
    /\ diff.target = MissingBuildInfo
    /\ diff' = IF \E i \in DOMAIN diff.virtualHashes :
                     ParseKeyThrows(diff.virtualHashes[i].key)
               THEN [diff EXCEPT !.pc = "thrown", !.error = "invalidKey"]
               ELSE [diff EXCEPT !.pc = "returned",
                                 !.differences = AllAdded(diff.virtualHashes)]
    /\ UNCHANGED <<callVars, storeVars, sokoDir, build>>

\* lines 173-191: the target release is read and hashed
DiffTargetHashes ==
    /\ diff.pc = "stat"
    /\ diff.target # MissingBuildInfo
    /\ diff' = IF diff.target = InvalidBuildInfo
               THEN [diff EXCEPT !.pc = "thrown", !.error = "targetHashes"]
               ELSE [diff EXCEPT !.pc = "compare",
                                 !.targetHashes = GenerateContractHashes(diff.target.contracts)]
    /\ UNCHANGED <<callVars, storeVars, sokoDir, build>>

\* lines 193-227: the two maps are compared
DiffCompare ==
    /\ diff.pc = "compare"
    /\ diff' = IF CompareThrows(diff.virtualHashes, diff.targetHashes)
               THEN [diff EXCEPT !.pc = "thrown", !.error = "invalidKey"]
               ELSE [diff EXCEPT !.pc = "returned",
                        !.differences =
                            AddedOrChanged(diff.virtualHashes, diff.targetHashes)
                            \o Removed(diff.virtualHashes, diff.targetHashes)]
    /\ UNCHANGED <<callVars, storeVars, sokoDir, build>>

DiffNext ==
    \/ DiffCall
    \/ DiffFreshHashes
    \/ DiffTargetMissing
    \/ DiffTargetHashes
    \/ DiffCompare

\* ------------------------------------------------------------------------
\* generateReleasesSummariesAndTypings
\* ------------------------------------------------------------------------
\* Names of release directories, as tokens: "1.0.0", "latest", "v1.1.0",
\* "v2.0.0" and "__proto__".
ReleaseNames ==
    { <<"1", ".", "0", ".", "0">>,
      <<"latest">>,
      <<"v", "1", ".", "1", ".", "0">>,
      <<"v", "2", ".", "0", ".", "0">>,
      <<"__proto__">> }

\* the most release directories the Soko directory holds
MaxReleases == 3

\* the tokens that are decimal digits
Digits == {"0", "1", "2"}

\* s.split("."): the parts between the dots
RECURSIVE SplitDots(_)
SplitDots(s) ==
    IF s = <<>> THEN << <<>> >>
    ELSE LET rest == SplitDots(Tail(s))
         IN  IF Head(s) = "." THEN << <<>> >> \o rest
             ELSE << <<Head(s)>> \o Head(rest) >> \o Tail(rest)

DigitValue(d) == CASE d = "0" -> 0 [] d = "1" -> 1 [] d = "2" -> 2

AllDigits(part) == \A i \in DOMAIN part : part[i] \in Digits

\* the value of a run of digits
RECURSIVE DecimalValue(_)
DecimalValue(digits) ==
    IF digits = <<>> THEN 0
    ELSE DecimalValue(SubSeq(digits, 1, Len(digits) - 1)) * 10
         + DigitValue(digits[Len(digits)])

RECURSIVE Pow10(_)
Pow10(n) == IF n = 0 THEN 1 ELSE 10 * Pow10(n - 1)

\* a part without its sign
Unsigned(part) == IF part # <<>> /\ Head(part) = "-" THEN Tail(part) ELSE part

\* Number(part) is a number and Math.floor of it is that number.  The
\* part holds no dot.  Number("") is 0; a decimal literal is an optional
\* sign, digits, and an optional exponent: "e", an optional sign, digits.
\* With a negative exponent the value is an integer when the digits are
\* a multiple of that power of ten.
IsIntegerPart(part) ==
    LET literal == Unsigned(part)
        marks == {i \in DOMAIN literal : literal[i] = "e"}
    IN  IF part = <<>> THEN TRUE
        ELSE IF marks = {} THEN literal # <<>> /\ AllDigits(literal)
        ELSE IF Cardinality(marks) > 1 THEN FALSE
        ELSE LET k == CHOOSE i \in marks : TRUE
                 mantissa == SubSeq(literal, 1, k - 1)
                 exponent == SubSeq(literal, k + 1, Len(literal))
                 power == Unsigned(exponent)
             IN  /\ mantissa # <<>> /\ AllDigits(mantissa)
                 /\ power # <<>> /\ AllDigits(power)
                 /\ \/ exponent = power
                    \/ DecimalValue(mantissa) = 0
                    \/ /\ DecimalValue(power) <= Len(mantissa)
                       /\ DecimalValue(mantissa) % Pow10(DecimalValue(power)) = 0

\* isSemanticVersion
IsSemanticVersion(s) ==
    LET consideredString == IF s # <<>> /\ Head(s) = "v" THEN Tail(s) ELSE s
        parts == SplitDots(consideredString)
    IN  /\ Len(parts) # 0
        /\ Len(parts) <= 3
        /\ \A i \in DOMAIN parts : IsIntegerPart(parts[i])

\* the rank of a token under localeCompare: punctuation, digits, letters
LocaleRank(token) ==
    CASE token = "__proto__" -> 0
      [] token = "." -> 1
      [] token = "0" -> 2
      [] token = "1" -> 3
      [] token = "2" -> 4
      [] token = "latest" -> 5
      [] token = "v" -> 6

\* a.localeCompare(b) < 0
RECURSIVE LocaleLess(_, _)
LocaleLess(a, b) ==
    IF b = <<>> THEN FALSE
    ELSE IF a = <<>> THEN TRUE
    ELSE IF Head(a) = Head(b) THEN LocaleLess(Tail(a), Tail(b))
    ELSE LocaleRank(Head(a)) < LocaleRank(Head(b))

\* The build-info.json of a release directory: no contract, one contract,
\* two contracts of which the first is another version of that one; or
\* no such file; or a file that is not a build info.
ContractC == [path |-> <<"c">>, name |-> <<"b">>]

ContractD == [path |-> <<"a", SEPARATOR, "b">>, name |-> <<"c">>]

InfoOne == ContractInfo(<<AbiItem("g", "none"), AbiItem("f", "none")>>, "x", "o", "m")

InfoTwo ==
    ContractInfo(<<AbiItem("f", "none"), AbiItem("g", "none"), AbiItem("f", "none")>>,
                 "y", "o", "m")

ContractEntry(c, info) == [path |-> c.path, name |-> c.name, info |-> info]

ReleaseBuildInfos ==
    { [kind |-> "buildInfo", contracts |-> <<>>],
      [kind |-> "buildInfo", contracts |-> <<ContractEntry(ContractC, InfoOne)>>],
      [kind |-> "buildInfo", contracts |-> <<ContractEntry(ContractC, InfoTwo),
                                             ContractEntry(ContractD, InfoOne)>>],
      MissingBuildInfo,
      InvalidBuildInfo }

\* the digest of lines 90-101: JSON.stringify(abi), then JSON.stringify(evm),
\* written as the stream it was computed from
ContractDigest(info) == info.abi \o <<info.bytecode, info.opcodes>>

NoDigest == <<>>

\* `${contractPath}:${contractName}`
ContractKey(contractPath, contractName) == contractPath \o <<":">> \o contractName

\* A Record<string, T> whose keys are no array indices, as its entries
\* [key, value] in insertion order.
RecordHas(rec, key) == \E i \in DOMAIN rec : rec[i].key = key

RecordGet(rec, key) == rec[CHOOSE i \in DOMAIN rec : rec[i].key = key].value

RecordKeys(rec) == {rec[i].key : i \in DOMAIN rec}

RecordSet(rec, key, value) ==
    IF RecordHas(rec, key)
    THEN [i \in DOMAIN rec |-> IF rec[i].key = key THEN [key |-> key, value |-> value]
                                ELSE rec[i]]
    ELSE Append(rec, [key |-> key, value |-> value])

\* lines 87-111: the contracts of one release are added to releasesPerContracts
RECURSIVE AddRelease(_, _, _, _)
AddRelease(releasesPerContracts, release, contracts, i) ==
    IF i > Len(contracts) THEN releasesPerContracts
    ELSE LET contractKey == ContractKey(contracts[i].path, contracts[i].name)
             tuple == [release |-> release,
                       contractDigest |-> ContractDigest(contracts[i].info)]
             before == IF RecordHas(releasesPerContracts, contractKey)
                       THEN RecordGet(releasesPerContracts, contractKey)
                       ELSE <<>>
         IN  AddRelease(RecordSet(releasesPerContracts, contractKey,
                                  Append(before, tuple)),
                        release, contracts, i + 1)

\* lines 118-120: Array.prototype.sort with localeCompare on the release, a
\* stable sort
\* mutant: the tuples are left in the order of the directory listing
SortByReleaseMutantUnsorted(tuples) == tuples

RECURSIVE SortByRelease(_)
SortByRelease(tuples) ==
    IF tuples = <<>> THEN <<>>
    ELSE LET sorted == SortByRelease(SubSeq(tuples, 1, Len(tuples) - 1))
             last == tuples[Len(tuples)]
         IN  SelectSeq(sorted, LAMBDA t : ~LocaleLess(last.release, t.release))
             \o <<last>>
             \o SelectSeq(sorted, LAMBDA t : LocaleLess(last.release, t.release))

\* mutant: every release kept becomes the one the next is compared with
RECURSIVE FilterSimilarFromMutantAnyCursor(_, _, _)
FilterSimilarFromMutantAnyCursor(tuples, i, lastSemanticVersionContractHash) ==
    IF i > Len(tuples) THEN <<>>
    ELSE IF /\ IsSemanticVersion(tuples[i].release)
            /\ lastSemanticVersionContractHash # NoDigest
            /\ lastSemanticVersionContractHash = tuples[i].contractDigest
    THEN FilterSimilarFromMutantAnyCursor(tuples, i + 1, lastSemanticVersionContractHash)
    ELSE <<tuples[i].release>>
         \o FilterSimilarFromMutantAnyCursor(tuples, i + 1, tuples[i].contractDigest)

\* lines 124-138: the releases kept of the sorted tuples, from the i-th on
RECURSIVE FilterSimilarFrom(_, _, _)
FilterSimilarFrom(tuples, i, lastSemanticVersionContractHash) ==
    IF i > Len(tuples) THEN <<>>
    ELSE IF ~IsSemanticVersion(tuples[i].release)
    THEN <<tuples[i].release>>
         \o FilterSimilarFrom(tuples, i + 1, lastSemanticVersionContractHash)
    ELSE IF /\ lastSemanticVersionContractHash # NoDigest
            /\ lastSemanticVersionContractHash = tuples[i].contractDigest
    THEN FilterSimilarFrom(tuples, i + 1, lastSemanticVersionContractHash)
    ELSE <<tuples[i].release>>
         \o FilterSimilarFrom(tuples, i + 1, tuples[i].contractDigest)

FilterSimilar(tuples) == FilterSimilarFrom(tuples, 1, NoDigest)

\* lines 139-145
AllReleases(tuples) == [i \in DOMAIN tuples |-> tuples[i].release]

\* lines 115-147: releasesPerContracts with each list sorted, and
\* updatedReleasesPerContracts
SortedReleasesPerContracts(releasesPerContracts) ==
    [i \in DOMAIN releasesPerContracts |->
        [key |-> releasesPerContracts[i].key,
         value |-> SortByRelease(releasesPerContracts[i].value)]]

UpdatedReleasesPerContracts(sortedPerContracts, filterSimilarContracts) ==
    [i \in DOMAIN sortedPerContracts |->
        [key |-> sortedPerContracts[i].key,
         value |-> IF filterSimilarContracts
                   THEN FilterSimilar(sortedPerContracts[i].value)
                   ELSE AllReleases(sortedPerContracts[i].value)]]

\* contractsPerReleases is a plain object indexed by the release names.
\* An assignment to the key "__proto__" sets the prototype of the object
\* and adds no key; a read of that key gives the prototype.
ProtoKey == <<"__proto__">>

NoProto == [set |-> FALSE, value |-> <<>>]

EmptyObject == [own |-> <<>>, proto |-> NoProto]

ObjectSet(obj, key, value) ==
    IF key = ProtoKey THEN [obj EXCEPT !.proto = [set |-> TRUE, value |-> value]]
    ELSE [obj EXCEPT !.own = RecordSet(@, key, value)]

\* obj[key] is truthy
ObjectHas(obj, key) == key = ProtoKey \/ RecordHas(obj.own, key)

\* obj[key].push(item)
ObjectPush(obj, key, item) ==
    IF key = ProtoKey THEN [obj EXCEPT !.proto.value = Append(@, item)]
    ELSE [obj EXCEPT !.own = RecordSet(@, key, Append(RecordGet(@, key), item))]

\* lines 149-155: releaseNames.reduce
RECURSIVE InitialContractsPerReleases(_, _)
InitialContractsPerReleases(releaseNames, i) ==
    IF i = 0 THEN EmptyObject
    ELSE ObjectSet(InitialContractsPerReleases(releaseNames, i - 1),
                   releaseNames[i], <<>>)

\* lines 156-166: the contract key is pushed to each of its releases
RECURSIVE PushContract(_, _, _, _)
PushContract(obj, contractKey, contractReleases, j) ==
    IF j > Len(contractReleases) THEN obj
    ELSE PushContract(ObjectPush(obj, contractReleases[j], contractKey),
                      contractKey, contractReleases, j + 1)

RECURSIVE InvertFrom(_, _, _)
InvertFrom(obj, updated, i) ==
    IF i > Len(updated) THEN obj
    ELSE InvertFrom(PushContract(obj, updated[i].key, updated[i].value, 1),
                    updated, i + 1)

\* line 159: a release of a contract that contractsPerReleases does not hold
InvertThrows(releaseNames, updated) ==
    LET obj == InitialContractsPerReleases(releaseNames, Len(releaseNames))
    IN  \E i \in DOMAIN updated : \E j \in DOMAIN updated[i].value :
            ~ObjectHas(obj, updated[i].value[j])

ContractsPerReleases(releaseNames, updated) ==
    InvertFrom(InitialContractsPerReleases(releaseNames, Len(releaseNames)),
               updated, 1)

\* for (const release in contractsPerReleases): the own keys, then the
\* indices of the array that was made the prototype
ForIn(obj) ==
    obj.own \o [i \in DOMAIN obj.proto.value |->
                   [key |-> <<ToString(i - 1)>>, value |-> obj.proto.value[i]]]

\* the files of the generated folder
NoFile == [kind |-> "none"]

SummaryFile(contracts, releases) ==
    [kind |-> "summary", contracts |-> contracts, releases |-> releases]

\* a summary persisted by an earlier build
EarlierSummary ==
    SummaryFile(<<[key |-> <<"earlier">>, value |-> <<>>]>>, <<>>)

NoGenerated == [exists |-> FALSE, summaryTs |-> NoFile, summaryJson |-> NoFile]

EmptyGenerated == [exists |-> TRUE, summaryTs |-> NoFile, summaryJson |-> NoFile]

EarlierGenerated ==
    [exists |-> TRUE, summaryTs |-> EarlierSummary, summaryJson |-> EarlierSummary]

\* The Soko directory: missing, or holding at most MaxReleases release
\* directories and perhaps the generated folder.
NoSokoDir == [exists |-> FALSE, releases |-> <<>>, generated |-> NoGenerated]

ReleaseSets == {S \in SUBSET ReleaseNames : Cardinality(S) <= MaxReleases}

SokoDirs ==
    {NoSokoDir} \cup
    { [exists |-> TRUE, releases |-> r, generated |-> g] :
        r \in UNION {[S -> ReleaseBuildInfos] : S \in ReleaseSets},
        g \in {NoGenerated, EarlierGenerated} }

\* fs.readdir gives the directories in any order
Orders(S) ==
    { s \in [1..Cardinality(S) -> S] : \A i, j \in DOMAIN s : s[i] = s[j] => i = j }

IdleBuild ==
    [pc |-> "idle", filterSimilarContracts |-> FALSE, releaseNames |-> <<>>,
     loaded |-> 0, releasesPerContracts |-> <<>>,
     updatedReleasesPerContracts |-> <<>>, contractsPerReleases |-> EmptyObject,
     error |-> "none", before |-> NoGenerated]

\* generateReleasesSummariesAndTypings is called
BuildCall ==
    /\ build.pc = "idle"
    /\ \E filterSimilarContracts \in BOOLEAN :
          build' = [IdleBuild EXCEPT !.pc = "stat",
                                     !.filterSimilarContracts = filterSimilarContracts,
                                     !.before = sokoDir.generated]
    /\ UNCHANGED <<callVars, storeVars, diff, sokoDir>>

\* lines 36-53: a missing Soko directory is created, with its generated folder
BuildEnsureDirectory ==
    /\ build.pc = "stat"
    /\ sokoDir' = IF sokoDir.exists THEN sokoDir
                  ELSE [sokoDir EXCEPT !.exists = TRUE, !.generated = EmptyGenerated]
    /\ build' = [build EXCEPT !.pc = "readdir"]
    /\ UNCHANGED <<callVars, storeVars, diff>>

\* lines 48-52: the directory cannot be created
BuildMkdirFails ==
    /\ build.pc = "stat"
    /\ ~sokoDir.exists
    /\ failures < MaxFailures
    /\ failures' = failures + 1
    /\ build' = [build EXCEPT !.pc = "thrown", !.error = "mkdir"]
    /\ UNCHANGED <<callVars, bucket, localFs, push, pushes, pull, hist, diff, sokoDir>>

\* lines 56-80: the release directories are listed
BuildReaddir ==
    /\ build.pc = "readdir"
    /\ \E releaseNames \in Orders(DOMAIN sokoDir.releases) :
          build' = [build EXCEPT !.pc = IF releaseNames = <<>> THEN "writeEmpty"
                                        ELSE "load",
                                 !.releaseNames = releaseNames]
    /\ UNCHANGED <<callVars, storeVars, diff, sokoDir>>

\* lines 60-62
BuildReaddirFails ==
    /\ build.pc = "readdir"
    /\ failures < MaxFailures
    /\ failures' = failures + 1
    /\ build' = [build EXCEPT !.pc = "thrown", !.error = "readdir"]
    /\ UNCHANGED <<callVars, bucket, localFs, push, pushes, pull, hist, diff, sokoDir>>

\* lines 114-186, once every release is loaded
Summarised(b) ==
    LET sorted == SortedReleasesPerContracts(b.releasesPerContracts)
        updated == UpdatedReleasesPerContracts(sorted, b.filterSimilarContracts)
    IN  IF InvertThrows(b.releaseNames, updated)
        THEN [b EXCEPT !.pc = "thrown", !.error = "releaseNotFound",
                       !.releasesPerContracts = sorted,
                       !.updatedReleasesPerContracts = updated]
        ELSE [b EXCEPT !.pc = "writeTs",
                       !.releasesPerContracts = sorted,
                       !.updatedReleasesPerContracts = updated,
                       !.contractsPerReleases =
                           ContractsPerReleases(b.releaseNames, updated)]

\* lines 82-112 and getReleaseBuildInfo: the next release is loaded and its
\* contracts recorded; after the last one the summary is computed
BuildLoadRelease ==
    /\ build.pc = "load"
    /\ LET release == build.releaseNames[build.loaded + 1]
           file == sokoDir.releases[release]
           b == [build EXCEPT !.loaded = @ + 1,
                    !.releasesPerContracts =
                        AddRelease(@, release, file.contracts, 1)]
       IN  build' = IF file.kind # "buildInfo"
                    THEN [build EXCEPT !.pc = "thrown", !.error = "buildInfo"]
                    ELSE IF b.loaded = Len(b.releaseNames) THEN Summarised(b)
                    ELSE b
    /\ UNCHANGED <<callVars, storeVars, diff, sokoDir>>

\* lines 188-201: the generated folder is made sure of and summary.ts written
BuildWriteTs ==
    /\ build.pc = "writeTs"
    /\ sokoDir' = [sokoDir EXCEPT
          !.generated.exists = TRUE,
          !.generated.summaryTs =
              SummaryFile(build.updatedReleasesPerContracts,
                          ForIn(build.contractsPerReleases))]
    /\ build' = [build EXCEPT !.pc = "writeJson"]
    /\ UNCHANGED <<callVars, storeVars, diff>>

\* lines 203-223: summary.json is written
BuildWriteJson ==
    /\ build.pc = "writeJson"
    /\ sokoDir' = [sokoDir EXCEPT
          !.generated.summaryJson =
              SummaryFile(build.updatedReleasesPerContracts,
                          build.contractsPerReleases.own)]
    /\ build' = [build EXCEPT !.pc = "returned"]
    /\ UNCHANGED <<callVars, storeVars, diff>>

\* lines 197-201 and 218-222: a write fails
BuildWriteFails ==
    /\ build.pc \in {"writeTs", "writeJson"}
    /\ failures < MaxFailures
    /\ failures' = failures + 1
    /\ sokoDir' = IF build.pc = "writeTs"
                  THEN [sokoDir EXCEPT !.generated.exists = TRUE]
                  ELSE sokoDir
    /\ build' = [build EXCEPT !.pc = "thrown", !.error = "write"]
    /\ UNCHANGED <<callVars, bucket, localFs, push, pushes, pull, hist, diff>>

\* writeEmptySummaries: the empty summaries are written into the generated
\* folder, which is not created here
BuildWriteEmpty ==
    /\ build.pc = "writeEmpty"
    /\ sokoDir.generated.exists
    /\ sokoDir' = [sokoDir EXCEPT
          !.generated.summaryTs = SummaryFile(<<>>, <<>>),
          !.generated.summaryJson = SummaryFile(<<>>, <<>>)]
    /\ build' = [build EXCEPT !.pc = "returned"]
    /\ UNCHANGED <<callVars, storeVars, diff>>

\* writeEmptySummaries lines 320-324: fs.writeFile rejects, there is no
\* generated folder
BuildWriteEmptyFails ==
    /\ build.pc = "writeEmpty"
    /\ ~sokoDir.generated.exists
    /\ build' = [build EXCEPT !.pc = "thrown", !.error = "writeEmpty"]
    /\ UNCHANGED <<callVars, storeVars, diff, sokoDir>>

BuildNext ==
    \/ BuildCall
    \/ BuildEnsureDirectory
    \/ BuildMkdirFails
    \/ BuildReaddir
    \/ BuildReaddirFails
    \/ BuildLoadRelease
    \/ BuildWriteTs
    \/ BuildWriteJson
    \/ BuildWriteFails
    \/ BuildWriteEmpty
    \/ BuildWriteEmptyFails

\* ------------------------------------------------------------------------
\* The two digests of a contract entry: hashContract and the summary builder
\* ------------------------------------------------------------------------
\* abi items with one name and other inputs (an overloaded function), and
\* an item with another name
HashedAbiItems ==
    {AbiItem("f", "uint"), AbiItem("f", "address"), AbiItem("g", "none")}

MaxAbi == 2

RECURSIVE AbisOfLength(_)
AbisOfLength(n) ==
    IF n = 0 THEN {<<>>}
    ELSE {Append(abi, item) : abi \in AbisOfLength(n - 1), item \in HashedAbiItems}

HashedContractInfos ==
    { ContractInfo(abi, object, opcodes, metadata) :
        abi \in UNION {AbisOfLength(n) : n \in 0..MaxAbi},
        object \in {"x", "y"}, opcodes \in {"o", "p"}, metadata \in {"m", "n"} }

IdleHashing ==
    [first |-> InfoOne, second |-> InfoOne, hashes |-> <<>>, digests |-> <<>>]

\* hashContract on each of the two entries
HashContractCall ==
    /\ hashing.hashes = <<>>
    /\ hashing' = [hashing EXCEPT
          !.hashes = <<HashContract(hashing.first), HashContract(hashing.second)>>]
    /\ UNCHANGED <<storeVars, scriptVars, idCalls, listing, classify>>

\* part_004 lines 90-101 on each of the two entries
ContractDigestCall ==
    /\ hashing.digests = <<>>
    /\ hashing' = [hashing EXCEPT
          !.digests = <<ContractDigest(hashing.first), ContractDigest(hashing.second)>>]
    /\ UNCHANGED <<storeVars, scriptVars, idCalls, listing, classify>>

HashNext ==
    \/ HashContractCall
    \/ ContractDigestCall

\* ------------------------------------------------------------------------
\* The derivations of an artifact id
\* ------------------------------------------------------------------------
Base64Alphabet ==
    <<"A", "B", "C", "D", "E", "F", "G", "H", "I", "J", "K", "L", "M",
      "N", "O", "P", "Q", "R", "S", "T", "U", "V", "W", "X", "Y", "Z",
      "a", "b", "c", "d", "e", "f", "g", "h", "i", "j", "k", "l", "m",
      "n", "o", "p", "q", "r", "s", "t", "u", "v", "w", "x", "y", "z",
      "0", "1", "2", "3", "4", "5", "6", "7", "8", "9", "+", "/">>

\* hash.digest("base64"): each three bytes as four characters of six bits;
\* one or two bytes left are padded with "="
RECURSIVE Base64Encode(_)
Base64Encode(bytes) ==
    IF bytes = <<>> THEN <<>>
    ELSE IF Len(bytes) = 1
    THEN <<Base64Alphabet[(bytes[1] \div 4) + 1],
           Base64Alphabet[((bytes[1] % 4) * 16) + 1], "=", "=">>
    ELSE IF Len(bytes) = 2
    THEN <<Base64Alphabet[(bytes[1] \div 4) + 1],
           Base64Alphabet[((bytes[1] % 4) * 16 + bytes[2] \div 16) + 1],
           Base64Alphabet[((bytes[2] % 16) * 4) + 1], "=">>
    ELSE <<Base64Alphabet[(bytes[1] \div 4) + 1],
           Base64Alphabet[((bytes[1] % 4) * 16 + bytes[2] \div 16) + 1],
           Base64Alphabet[((bytes[2] % 16) * 4 + bytes[3] \div 64) + 1],
           Base64Alphabet[(bytes[3] % 64) + 1]>>
         \o Base64Encode(SubSeq(bytes, 4, Len(bytes)))

\* LocalStorageProvider.retrieveArtifactId, of the content of the tag file
RetrieveArtifactId(content) == Substring0(Base64Encode(Sha256(content)), IdLength)

\* the documents an id is derived from
IdContents == Contents \cup {Truncated}

MaxIdCalls == 5

IdleIdCalls == [content |-> "c1", derived |-> <<>>]

\* part_002 lines 60-63: pushArtifact derives the id of the document
PushDerivesId ==
    /\ Len(idCalls.derived) < MaxIdCalls
    /\ idCalls' = [idCalls EXCEPT !.derived =
          Append(@, [by |-> "pushArtifact", id |-> ArtifactId(idCalls.content)])]
    /\ UNCHANGED <<storeVars, scriptVars, hashing, listing, classify>>

\* local-storage-provider.ts lines 145-156, on a tag file holding the document
RetrieveDerivesId ==
    /\ Len(idCalls.derived) < MaxIdCalls
    /\ idCalls' = [idCalls EXCEPT !.derived =
          Append(@, [by |-> "retrieveArtifactId",
                     id |-> RetrieveArtifactId(idCalls.content)])]
    /\ UNCHANGED <<storeVars, scriptVars, hashing, listing, classify>>

IdNext ==
    \/ PushDerivesId
    \/ RetrieveDerivesId

\* ------------------------------------------------------------------------
\* generateStructuredDataForArtifacts
\* ------------------------------------------------------------------------
\* the project directories of the root directory, in the order of readdir
Projects == <<"p", "q">>

\* what the directory of a project can hold
ProjectStores ==
    { EmptyStore,
      CreateArtifactById(EmptyStore, ArtifactId("c1"), "c1"),
      CreateArtifactById(EmptyStore, ArtifactId("c2"), "c2"),
      CreateArtifactByTag(EmptyStore, <<"v">>, "c1"),
      CreateArtifactByTag(CreateArtifactById(EmptyStore, ArtifactId("c1"), "c1"),
                          <<"v">>, "c1"),
      CreateArtifactByTag(
          CreateArtifactById(CreateArtifactById(EmptyStore, ArtifactId("c1"), "c1"),
                             ArtifactId("c2"), "c2"),
          <<"v">>, "c2"),
      CreateArtifactByTag(EmptyStore, <<JSON, "b">>, "c1") }

Roots == [DOMAIN Projects -> ProjectStores]

IdleListing ==
    [root |-> [i \in DOMAIN Projects |-> EmptyStore], pc |-> "idle", project |-> 1,
     metadatas |-> <<>>, idsAlreadyVisited |-> {}, error |-> "none"]

\* lines 15-24: listProjects answers
ListCall ==
    /\ listing.pc = "idle"
    /\ listing' = [listing EXCEPT !.pc = "projects"]
    /\ UNCHANGED <<storeVars, scriptVars, hashing, idCalls, classify>>

\* lines 18-20: listProjects fails
ListProjectsFails ==
    /\ listing.pc = "idle"
    /\ failures < MaxFailures
    /\ failures' = failures + 1
    /\ listing' = [listing EXCEPT !.pc = "thrown", !.error = "listProjects"]
    /\ UNCHANGED <<bucket, localFs, push, pushes, pull, hist, scriptVars, hashing, idCalls,
                   classify>>

\* lines 33-55: a row for each tag, with the id that retrieveArtifactId gives
TagRows(project, store, tags) ==
    [i \in DOMAIN tags |->
        [Project |-> project,
         ID |-> RetrieveArtifactId(store.tags[FileName(tags[i])]),
         Tag |-> tags[i]]]

\* lines 63-74: a row for each id that is not in idsAlreadyVisited
IdRows(project, ids, visited) ==
    LET kept == SelectSeq(ids, LAMBDA id : id \notin visited)
    IN  [i \in DOMAIN kept |-> [Project |-> project, ID |-> kept[i], Tag |-> <<>>]]

\* lines 25-75: one turn of the loop on the projects
ListProject ==
    /\ listing.pc = "projects"
    /\ listing.project <= Len(Projects)
    /\ LET project == Projects[listing.project]
           store == listing.root[listing.project]
           tagFiles == SortStrings(DOMAIN store.tags)
           idFiles == SortStrings(DOMAIN store.ids)
           tags == [i \in DOMAIN tagFiles |-> ReplaceJson(tagFiles[i])]
           ids == [i \in DOMAIN idFiles |-> ReplaceJson(idFiles[i])]
       IN  IF ~StatsAnswer(store.tags)
           THEN listing' = [listing EXCEPT !.pc = "thrown", !.error = "listTags"]
           ELSE LET tagRows == TagRows(project, store, tags)
                    visited == listing.idsAlreadyVisited
                                 \cup {tagRows[i].ID : i \in DOMAIN tagRows}
                IN  IF ~StatsAnswer(store.ids)
                    THEN listing' = [listing EXCEPT !.pc = "thrown", !.error = "listIds"]
                    ELSE listing' = [listing EXCEPT
                            !.metadatas = @ \o tagRows \o IdRows(project, ids, visited),
                            !.idsAlreadyVisited = visited \cup Range(ids),
                            !.project = @ + 1]
    /\ UNCHANGED <<storeVars, scriptVars, hashing, idCalls, classify>>

\* line 77
ListReturn ==
    /\ listing.pc = "projects"
    /\ listing.project > Len(Projects)
    /\ listing' = [listing EXCEPT !.pc = "returned"]
    /\ UNCHANGED <<storeVars, scriptVars, hashing, idCalls, classify>>

ListNext ==
    \/ ListCall
    \/ ListProjectsFails
    \/ ListProject
    \/ ListReturn

\* ------------------------------------------------------------------------
\* isSemanticVersion on any name
\* ------------------------------------------------------------------------
\* the characters of the names, "latest" standing for letters that are in
\* no number
NameTokens == {"v", ".", "0", "1", "-", "e", "latest"}

MaxNameLength == 4

RECURSIVE NamesOfLength(_)
NamesOfLength(n) ==
    IF n = 0 THEN {<<>>}
    ELSE {Append(name, token) : name \in NamesOfLength(n - 1), token \in NameTokens}

Names == UNION {NamesOfLength(n) : n \in 0..MaxNameLength}

IdleClassify == [name |-> <<>>, called |-> FALSE, result |-> FALSE]

\* part_004 lines 273-290
IsSemanticVersionCall ==
    /\ ~classify.called
    /\ classify' = [classify EXCEPT !.called = TRUE,
                                    !.result = IsSemanticVersion(classify.name)]
    /\ UNCHANGED <<storeVars, scriptVars, hashing, idCalls, listing>>

ClassifyNext == IsSemanticVersionCall

\* the variables of the calls of pure functions, when no call is made
CallsIdle ==
    /\ hashing = IdleHashing
    /\ idCalls = IdleIdCalls
    /\ listing = IdleListing
    /\ classify = IdleClassify


\* ------------------------------------------------------------------------
\* Specifications
\* ------------------------------------------------------------------------
InitStores ==
    /\ bucket = EmptyStore
    /\ localFs = EmptyStore
    /\ push = [p \in Pushers |-> IdlePush]
    /\ pushes = 0
    /\ failures = 0
    /\ pull = IdlePull
    /\ hist = InitHist
    /\ diff = IdleDiff
    /\ sokoDir = NoSokoDir
    /\ build = IdleBuild
    /\ CallsIdle

PushInit == InitStores

PushNext ==
    \/ \E p \in Pushers : PushCall(p)
    \/ \E p \in Pushers : PushLoad(p)
    \/ \E p \in Pushers : PushHasTag(p)
    \/ \E p \in Pushers : PushHasTagFails(p)
    \/ \E p \in Pushers : PushPutId(p)
    \/ \E p \in Pushers : PushCopyTag(p)
    \/ \E p \in Pushers : PushUploadFails(p)

SpecPush == PushInit /\ [][PushNext]_vars

\* two processes that run pushArtifact against the same bucket
RacePushers == {1, 2}

RaceInit ==
    /\ bucket = EmptyStore
    /\ localFs = EmptyStore
    /\ push = [p \in RacePushers |-> IdlePush]
    /\ pushes = 0
    /\ failures = 0
    /\ pull = IdlePull
    /\ hist = InitHist
    /\ diff = IdleDiff
    /\ sokoDir = NoSokoDir
    /\ build = IdleBuild
    /\ CallsIdle

\* pushArtifact is called by one of the two, on one tag, for a document
\* that loads
RacePushCall(p) ==
    /\ push[p].pc \in {"idle", "returned", "thrown"}
    /\ pushes < MaxPushes
    /\ \E path \in {a \in ArtifactPaths : a.json /\ a.data \in Contents},
          force \in BOOLEAN :
          push' = [push EXCEPT ![p] =
                      [pc |-> "load", tag |-> <<"v">>, force |-> force, path |-> path,
                       content |-> "none", artifactId |-> NoId, error |-> "none",
                       before |-> bucket]]
    /\ pushes' = pushes + 1
    /\ UNCHANGED <<callVars, scriptVars, bucket, localFs, failures, pull, hist>>

RaceNext ==
    \E p \in RacePushers :
        \/ RacePushCall(p)
        \/ PushLoad(p)
        \/ PushHasTag(p)
        \/ PushHasTagFails(p)
        \/ PushPutId(p)
        \/ PushCopyTag(p)
        \/ PushUploadFails(p)

SpecRace == RaceInit /\ [][RaceNext]_vars

\* uploadArtifact as a whole, both calls answering
UploadArtifact(b, id, tag, content) ==
    IF tag # NoTag THEN CopyToTagObject(PutIdObject(b, id, content), id, tag)
    ELSE PutIdObject(b, id, content)

\* the bucket after a pushArtifact of content under tag that returned
Pushed(b, tag, content) == UploadArtifact(b, ArtifactId(content), tag, content)

\* Runs of pushArtifact calls that returned, each call as its tag and the
\* document pushed; a call on an existing tag is a forced one.
PushRuns ==
    { <<>>,
      <<[tag |-> <<"v">>, content |-> "c1"]>>,
      <<[tag |-> <<"v">>, content |-> "c1"], [tag |-> NoTag, content |-> "c2"]>>,
      <<[tag |-> <<"v">>, content |-> "c1"], [tag |-> <<"v">>, content |-> "c2"]>>,
      <<[tag |-> NoTag, content |-> "c1"],
        [tag |-> ArtifactId("c1"), content |-> "c2"]>>,
      <<[tag |-> <<JSON, JSON, "b">>, content |-> "c1"],
        [tag |-> <<JSON, "b", JSON>>, content |-> "c1"]>>,
      <<[tag |-> <<JSON, JSON, "b">>, content |-> "c1"],
        [tag |-> <<JSON, "b", JSON>>, content |-> "c2"],
        [tag |-> <<"b", JSON, JSON>>, content |-> "c1"]>> }

\* the bucket after the calls of a run, from b
RECURSIVE AfterPushes(_, _)
AfterPushes(b, run) ==
    IF run = <<>> THEN b
    ELSE AfterPushes(Pushed(b, Head(run).tag, Head(run).content), Tail(run))

PushedBuckets == {AfterPushes(EmptyStore, run) : run \in PushRuns}

\* pull, run twice against a bucket that does not change
PullInit ==
    /\ bucket \in PushedBuckets
    /\ localFs = EmptyStore
    /\ push = [p \in Pushers |-> IdlePush]
    /\ pushes = 0
    /\ failures = 0
    /\ pull = IdlePull
    /\ hist = InitHist
    /\ diff = IdleDiff
    /\ sokoDir = NoSokoDir
    /\ build = IdleBuild
    /\ CallsIdle

SpecPull == PullInit /\ [][PullNext]_vars

\* generateDiffWithTargetRelease, run on any two documents and then on the
\* same two exchanged
DiffInit == InitStores

SpecDiff == DiffInit /\ [][DiffNext]_vars

\* generateReleasesSummariesAndTypings, run on any Soko directory
BuildInit ==
    /\ bucket = EmptyStore
    /\ localFs = EmptyStore
    /\ push = [p \in Pushers |-> IdlePush]
    /\ pushes = 0
    /\ failures = 0
    /\ pull = IdlePull
    /\ hist = InitHist
    /\ diff = IdleDiff
    /\ sokoDir \in SokoDirs
    /\ build = IdleBuild
    /\ CallsIdle

SpecBuild == BuildInit /\ [][BuildNext]_vars

\* hashContract and the digest of the summary builder, on any two entries
HashInit ==
    /\ bucket = EmptyStore
    /\ localFs = EmptyStore
    /\ push = [p \in Pushers |-> IdlePush]
    /\ pushes = 0
    /\ failures = 0
    /\ pull = IdlePull
    /\ hist = InitHist
    /\ diff = IdleDiff
    /\ sokoDir = NoSokoDir
    /\ build = IdleBuild
    /\ hashing \in [first : HashedContractInfos, second : HashedContractInfos,
                    hashes : {<<>>}, digests : {<<>>}]
    /\ idCalls = IdleIdCalls
    /\ listing = IdleListing
    /\ classify = IdleClassify

SpecHash == HashInit /\ [][HashNext]_vars

\* the ids derived from one document by pushArtifact and retrieveArtifactId
IdInit ==
    /\ bucket = EmptyStore
    /\ localFs = EmptyStore
    /\ push = [p \in Pushers |-> IdlePush]
    /\ pushes = 0
    /\ failures = 0
    /\ pull = IdlePull
    /\ hist = InitHist
    /\ diff = IdleDiff
    /\ sokoDir = NoSokoDir
    /\ build = IdleBuild
    /\ hashing = IdleHashing
    /\ idCalls \in [content : IdContents, derived : {<<>>}]
    /\ listing = IdleListing
    /\ classify = IdleClassify

SpecId == IdInit /\ [][IdNext]_vars

\* generateStructuredDataForArtifacts on any root directory
ListInit ==
    /\ bucket = EmptyStore
    /\ localFs = EmptyStore
    /\ push = [p \in Pushers |-> IdlePush]
    /\ pushes = 0
    /\ failures = 0
    /\ pull = IdlePull
    /\ hist = InitHist
    /\ diff = IdleDiff
    /\ sokoDir = NoSokoDir
    /\ build = IdleBuild
    /\ hashing = IdleHashing
    /\ idCalls = IdleIdCalls
    /\ \E root \in Roots : listing = [IdleListing EXCEPT !.root = root]
    /\ classify = IdleClassify

SpecList == ListInit /\ [][ListNext]_vars

\* isSemanticVersion on any name
ClassifyInit ==
    /\ bucket = EmptyStore
    /\ localFs = EmptyStore
    /\ push = [p \in Pushers |-> IdlePush]
    /\ pushes = 0
    /\ failures = 0
    /\ pull = IdlePull
    /\ hist = InitHist
    /\ diff = IdleDiff
    /\ sokoDir = NoSokoDir
    /\ build = IdleBuild
    /\ hashing = IdleHashing
    /\ idCalls = IdleIdCalls
    /\ listing = IdleListing
    /\ classify \in [name : Names, called : {FALSE}, result : {FALSE}]

SpecClassify == ClassifyInit /\ [][ClassifyNext]_vars

\* ------------------------------------------------------------------------
\* Properties of pushArtifact (SpecPush)
\* ------------------------------------------------------------------------
\* the candidate files of a path: the file itself, or the entries of the
\* build-info folder of the directory when it has one, or else its entries
CandidatesAt(path) ==
    IF path.stat = "file" THEN <<FileEntry(<<JSON>>, path.data)>>
    ELSE IF \E i \in DOMAIN path.entries : path.entries[i] = DirectoryEntry(<<"build-info">>)
    THEN path.buildInfo
    ELSE IF \A i \in DOMAIN path.entries :
               path.entries[i].type = "file" /\ EndsWithJson(path.entries[i].name)
    THEN path.entries
    ELSE <<>>

\* the document of the one candidate of the path
DocumentAt(path) ==
    IF Len(CandidatesAt(path)) = 1 THEN CandidatesAt(path)[1].data ELSE "none"

\* the call of pusher p was made with a tag the bucket already held
TagExistedAtCall(p) ==
    /\ push[p].pc # "idle"
    /\ push[p].tag # NoTag
    /\ HasArtifactByTag(push[p].before, push[p].tag)

\* C2: a pushArtifact call with a tag that the bucket already holds and
\* without force never reaches the upload and ends thrown; it throws the
\* conflict error whenever the artifact was loaded and the tag check
\* answered; the bucket holds what it held before the call.
C2_PushConflict ==
    \A p \in Pushers :
        (TagExistedAtCall(p) /\ ~push[p].force) =>
            /\ push[p].pc \in {"load", "hasTag", "thrown"}
            /\ push[p].pc = "thrown" =>
                  /\ push[p].error \in {"retrieve", "hasTag", "conflict"}
                  /\ push[p].error = "retrieve" <=>
                        RetrieveFreshCompilationArtifact(push[p].path).status # "success"
            /\ bucket = push[p].before

C2_Witness ==
    \E p \in Pushers :
        /\ TagExistedAtCall(p)
        /\ ~push[p].force
        /\ push[p].pc = "thrown"
        /\ push[p].error = "conflict"
        /\ DOMAIN bucket.ids # {}

\* the id objects other than the one of the running call of p hold what
\* they held before the call
OtherIdsUntouched(p) ==
    \A f \in DOMAIN push[p].before.ids :
        f # FileName(push[p].artifactId) =>
            /\ f \in DOMAIN bucket.ids
            /\ bucket.ids[f] = push[p].before.ids[f]

\* C3: a forced pushArtifact call with a tag that the bucket already holds
\* is never refused as a conflict, and throws only when the artifact does
\* not load or a provider call fails; once it has returned, the tag resolves
\* to the document of this call, the returned id is the id derived from
\* it, and at every moment of the call the objects under the other ids
\* hold what they held before.
C3_ForcedPush ==
    \A p \in Pushers :
        (TagExistedAtCall(p) /\ push[p].force) =>
            /\ push[p].error # "conflict"
            /\ push[p].pc = "thrown" =>
                  /\ push[p].error \in {"retrieve", "hasTag", "upload"}
                  /\ push[p].error = "retrieve" <=>
                        RetrieveFreshCompilationArtifact(push[p].path).status # "success"
            /\ OtherIdsUntouched(p)
            /\ push[p].pc = "returned" =>
                  /\ CanDownloadByTag(bucket, push[p].tag)
                  /\ DownloadArtifactByTag(bucket, push[p].tag) = DocumentAt(push[p].path)
                  /\ push[p].artifactId = ArtifactId(DocumentAt(push[p].path))

C3_Witness ==
    \E p \in Pushers :
        /\ TagExistedAtCall(p)
        /\ push[p].force
        /\ push[p].pc = "returned"
        /\ push[p].before.tags[FileName(push[p].tag)] # DocumentAt(push[p].path)
        /\ \E f \in DOMAIN push[p].before.ids : f # FileName(push[p].artifactId)

\* C10: once pushArtifact has returned, the returned id is the id derived
\* from the document at the artifact path, the download by that id gives
\* the document back, and so does the download by the tag when a tag was
\* given.
C10_UploadRoundTrip ==
    \A p \in Pushers :
        push[p].pc = "returned" =>
            LET c == DocumentAt(push[p].path)
                id == push[p].artifactId
            IN  /\ c \in Contents
                /\ id = ArtifactId(c)
                /\ CanDownloadById(bucket, id)
                /\ DownloadArtifactById(bucket, id) = c
                /\ push[p].tag # NoTag =>
                      /\ CanDownloadByTag(bucket, push[p].tag)
                      /\ DownloadArtifactByTag(bucket, push[p].tag) = c

C10_Witness ==
    \E p \in Pushers :
        /\ push[p].pc = "returned"
        /\ push[p].tag # NoTag
        /\ ~TagExistedAtCall(p)
        /\ DownloadArtifactByTag(bucket, push[p].tag) = DocumentAt(push[p].path)
        /\ DownloadArtifactById(bucket, push[p].artifactId) = DocumentAt(push[p].path)

\* an artifact path that is missing, is a file that is no JSON file, has
\* several candidate files or none, or whose candidate is no build info
BadArtifactPath(path) ==
    \/ path.stat = "missing"
    \/ path.stat = "file" /\ ~path.json
    \/ Len(CandidatesAt(path)) # 1
    \/ DocumentAt(path) \notin Contents

\* C25: pushArtifact loads the document, then checks the tag, then derives
\* the id, then uploads; on a bad artifact path it throws at the load, and
\* when it throws at the load or because the tag check failed the bucket
\* is what it was at the call.
C25_PushStepOrder ==
    \A p \in Pushers :
        LET q == push[p]
        IN  /\ (q.pc # "idle" /\ BadArtifactPath(q.path)) =>
                  /\ q.pc \in {"load", "thrown"}
                  /\ q.pc = "thrown" => q.error = "retrieve"
            /\ (q.pc = "thrown" /\ q.error \in {"retrieve", "hasTag"}) =>
                  bucket = q.before
            /\ (q.pc = "thrown" /\ q.error = "retrieve") => BadArtifactPath(q.path)
            /\ q.pc = "load" => (q.content = "none" /\ bucket = q.before)
            /\ q.pc = "hasTag" =>
                  /\ q.tag # NoTag
                  /\ q.content = DocumentAt(q.path)
                  /\ q.artifactId = NoId
                  /\ bucket = q.before
            /\ q.pc = "putId" =>
                  /\ q.content = DocumentAt(q.path)
                  /\ q.artifactId = ArtifactId(q.content)
                  /\ bucket = q.before
            /\ q.pc = "copyTag" =>
                  /\ q.tag # NoTag
                  /\ DownloadArtifactById(bucket, q.artifactId) = q.content

\* a push on a directory with two candidate files threw, the bucket
\* holding what an earlier push stored
C25_Witness ==
    \E p \in Pushers :
        /\ push[p].pc = "thrown"
        /\ push[p].error = "retrieve"
        /\ push[p].path.stat = "directory"
        /\ Len(CandidatesAt(push[p].path)) > 1
        /\ bucket # EmptyStore
        /\ bucket = push[p].before

\* ------------------------------------------------------------------------
\* Properties of pull (SpecPull)
\* ------------------------------------------------------------------------
Count(seq, x) == Cardinality({i \in DOMAIN seq : seq[i] = x})

\* the items of kind whose download was asked for / whose file was written
\* since the call
DownloadsOf(kind) == {d[2] : d \in {e \in hist.downloads : e[1] = kind}}

WritesOf(kind) == {w[2] : w \in {e \in hist.writes : e[1] = kind}}

\* each name is as often in names as in pulled and failed together
SplitInto(names, pulled, failed) ==
    \A x \in Range(names) \cup Range(pulled) \cup Range(failed) :
        Count(names, x) = Count(pulled, x) + Count(failed, x)

C5_ThrowsOnlyInSteps1And2 ==
    pull.pc = "thrown" => pull.error \in {"remoteListing", "notFound"}

\* C5, amended: pull throws only for the remote listing failure, for the
\* unresolved selector and, when not forced, for the local listing failure;
\* it throws before any download is dispatched, and never once one is.
C5_ThrowsOnlyBeforeDispatch ==
    /\ pull.pc = "thrown" =>
          /\ pull.error \in {"remoteListing", "notFound", "localListing"}
          /\ pull.error = "localListing" => ~pull.force
          /\ pull.tagsPromises = <<>> /\ pull.idsPromises = <<>>
          /\ hist.downloads = {} /\ hist.writes = {}
          /\ localFs = hist.localBefore
    /\ (pull.tagsPromises # <<>> \/ pull.idsPromises # <<>>) =>
          pull.pc \in {"settling", "returned"}

C5_Witness ==
    /\ pull.pc = "thrown"
    /\ pull.error = "localListing"
    /\ bucket # EmptyStore

\* C6: with a selector s, once the remote listing answered: if s is in the
\* listed tags the only candidate is the tag s; otherwise if s is in the
\* listed ids the only candidate is the id s; otherwise pull has thrown
\* not-found, nothing was downloaded and no file written.  Only a candidate
\* is ever downloaded or written.
C6_SelectorResolution ==
    (pull.tagOrId # NoSelector /\ pull.pc \notin {"idle", "listRemote"}
        /\ pull.error # "remoteListing") =>
        LET s == pull.tagOrId
        IN  IF s \in Range(S3ListTags(bucket))
            THEN /\ pull.tagsToDownload = <<s>> /\ pull.idsToDownload = <<>>
                 /\ pull.error # "notFound"
                 /\ DownloadsOf("tags") \subseteq {s} /\ DownloadsOf("ids") = {}
                 /\ WritesOf("tags") \subseteq {FileName(s)} /\ WritesOf("ids") = {}
            ELSE IF s \in Range(S3ListIds(bucket))
            THEN /\ pull.tagsToDownload = <<>> /\ pull.idsToDownload = <<s>>
                 /\ pull.error # "notFound"
                 /\ DownloadsOf("ids") \subseteq {s} /\ DownloadsOf("tags") = {}
                 /\ WritesOf("ids") \subseteq {FileName(s)} /\ WritesOf("tags") = {}
            ELSE /\ pull.pc = "thrown" /\ pull.error = "notFound"
                 /\ hist.downloads = {} /\ hist.writes = {}
                 /\ localFs = hist.localBefore

C6_Witness ==
    /\ pull.tagOrId # NoSelector
    /\ pull.tagOrId \in Range(S3ListTags(bucket))
    /\ pull.tagOrId \in Range(S3ListIds(bucket))
    /\ pull.pc = "returned"
    /\ pull.result.pulledTags = <<pull.tagOrId>>
    /\ pull.result.pulledIds = <<>>

\* the files of the named items that were there before the call are as
\* they were
FilesUntouched(kind, names) ==
    \A x \in names :
        /\ FileName(x) \notin WritesOf(kind)
        /\ FileName(x) \in DOMAIN hist.localBefore[kind] =>
              /\ FileName(x) \in DOMAIN localFs[kind]
              /\ localFs[kind][FileName(x)] = hist.localBefore[kind][FileName(x)]

\* C7: once the candidates are filtered: without force the items to
\* download are the candidates that the local listing does not hold, and
\* a candidate that it holds is not asked for, its file is not written and
\* it is neither in the pulled nor in the failed list; with force every
\* candidate is to be downloaded, whatever the local listing holds, and
\* when pull returns each was asked for and the file of each pulled one
\* was written.
C7_SkipUnlessForce ==
    pull.pc \in {"settling", "returned"} =>
        LET localTags == LocalListTags(hist.localBefore)
            localIds == LocalListIds(hist.localBefore)
            presentTags == Range(pull.tagsToDownload) \cap localTags
            presentIds == Range(pull.idsToDownload) \cap localIds
        IN  IF pull.force
            THEN /\ pull.filteredTagsToDownload = pull.tagsToDownload
                 /\ pull.filteredIdsToDownload = pull.idsToDownload
                 /\ pull.pc = "returned" =>
                       /\ DownloadsOf("tags") = Range(pull.tagsToDownload)
                       /\ DownloadsOf("ids") = Range(pull.idsToDownload)
                       /\ \A t \in Range(pull.result.pulledTags) :
                             FileName(t) \in WritesOf("tags")
                       /\ \A id \in Range(pull.result.pulledIds) :
                             FileName(id) \in WritesOf("ids")
            ELSE /\ Range(pull.filteredTagsToDownload) =
                       Range(pull.tagsToDownload) \ localTags
                 /\ Range(pull.filteredIdsToDownload) =
                       Range(pull.idsToDownload) \ localIds
                 /\ DownloadsOf("tags") \cap presentTags = {}
                 /\ DownloadsOf("ids") \cap presentIds = {}
                 /\ FilesUntouched("tags", presentTags)
                 /\ FilesUntouched("ids", presentIds)
                 /\ pull.pc = "returned" =>
                       /\ DownloadsOf("tags") = Range(pull.tagsToDownload) \ localTags
                       /\ DownloadsOf("ids") = Range(pull.idsToDownload) \ localIds
                       /\ presentTags \cap (Range(pull.result.pulledTags)
                                            \cup Range(pull.result.failedTags)) = {}
                       /\ presentIds \cap (Range(pull.result.pulledIds)
                                           \cup Range(pull.result.failedIds)) = {}

C7_Witness ==
    /\ pull.pc = "returned"
    /\ ~pull.force
    /\ pull.tagOrId = NoSelector
    /\ Range(pull.idsToDownload) \cap LocalListIds(hist.localBefore) # {}
    /\ pull.result.pulledIds # <<>>
    /\ pull.result.pulledTags # <<>>

\* C8: every returned result carries the full remote listing, also with a
\* selector; when nothing is left after filtering, the four lists are
\* empty and nothing was downloaded or written.
C8_FullRemoteListing ==
    pull.pc = "returned" =>
        /\ pull.result.remoteTags = S3ListTags(bucket)
        /\ pull.result.remoteIds = S3ListIds(bucket)
        /\ (pull.filteredTagsToDownload = <<>> /\ pull.filteredIdsToDownload = <<>>) =>
              /\ pull.result.pulledTags = <<>> /\ pull.result.pulledIds = <<>>
              /\ pull.result.failedTags = <<>> /\ pull.result.failedIds = <<>>
              /\ hist.downloads = {} /\ hist.writes = {}
              /\ localFs = hist.localBefore

C8_Witness ==
    /\ pull.pc = "returned"
    /\ pull.tagOrId # NoSelector
    /\ pull.tagsToDownload # <<>>
    /\ pull.filteredTagsToDownload = <<>>
    /\ Len(pull.result.remoteIds) > 1
    /\ pull.result.pulledTags = <<>>

\* C9 as stated: when pull returns, the local listing answers, every pulled
\* tag is in the local tag listing and every pulled id in the local id
\* listing, its file holding
\* what the bucket holds under that key; from an empty local project, with
\* no selector and no failed item, the pulled tags and the local tag
\* listing are the remote tag listing.
C9_PulledIsListedLocally ==
    pull.pc = "returned" =>
        /\ (pull.result.pulledTags # <<>> \/ pull.result.pulledIds # <<>>) =>
              LocalListingAnswers(localFs)
        /\ \A t \in Range(pull.result.pulledTags) :
              /\ t \in LocalListTags(localFs)
              /\ FileName(t) \in DOMAIN localFs.tags
              /\ localFs.tags[FileName(t)] = DownloadArtifactByTag(bucket, t)
        /\ \A id \in Range(pull.result.pulledIds) :
              /\ id \in LocalListIds(localFs)
              /\ FileName(id) \in DOMAIN localFs.ids
              /\ localFs.ids[FileName(id)] = DownloadArtifactById(bucket, id)
        /\ (hist.localBefore = EmptyStore /\ pull.tagOrId = NoSelector
               /\ pull.result.failedTags = <<>> /\ pull.result.failedIds = <<>>) =>
              /\ Range(pull.result.pulledTags) = Range(S3ListTags(bucket))
              /\ LocalListTags(localFs) = Range(S3ListTags(bucket))

\* C1 as stated, for a first run that reported no failed item: the second
\* of two pulls without selector and without force, against an unchanged
\* bucket, pulls nothing.
C1_SecondPullPullsNothing ==
    (/\ pull.pc = "returned"
     /\ hist.prev # NoRun
     /\ hist.prev.pc = "returned"
     /\ hist.prev.tagOrId = NoSelector /\ ~hist.prev.force
     /\ pull.tagOrId = NoSelector /\ ~pull.force
     /\ hist.prev.result.failedTags = <<>>
     /\ hist.prev.result.failedIds = <<>>) =>
        /\ pull.result.pulledTags = <<>>
        /\ pull.result.pulledIds = <<>>

\* ------------------------------------------------------------------------
\* Properties of generateDiffWithTargetRelease (SpecDiff)
\* ------------------------------------------------------------------------
DiffDone == diff.pc \in {"returned", "thrown"}

\* the (path, name) that the differences report with the status
Reported(differences, status) ==
    { [path |-> differences[i].path, name |-> differences[i].name] :
        i \in {j \in DOMAIN differences : differences[j].status = status} }

\* the (path, name) of the contracts of a document, and the digest of one
ContractsOf(file) ==
    { [path |-> file.contracts[i].path, name |-> file.contracts[i].name] :
        i \in DOMAIN file.contracts }

DigestOf(file, c) ==
    LET i == CHOOSE j \in DOMAIN file.contracts :
                 file.contracts[j].path = c.path /\ file.contracts[j].name = c.name
    IN  HashContract(file.contracts[i].info)

\* C11 as stated: the diff of a valid document against a target release
\* holding the same document returns the empty list.
C11_DiffReflexivity ==
    (DiffDone /\ diff.fresh \in ValidBuildInfos /\ diff.target = diff.fresh) =>
        /\ diff.pc = "returned"
        /\ diff.differences = <<>>

\* C12: for two valid documents A and B, diff(A, B) and diff(B, A) both
\* return or both throw, and when they return, what one reports as added
\* is what the other reports as removed, and they report the same changed.
C12_DiffComplementarity ==
    (DiffDone /\ diff.prev # NoDiffRun) =>
        /\ diff.fresh = diff.prev.target /\ diff.target = diff.prev.fresh
        /\ diff.pc = diff.prev.pc
        /\ diff.pc = "returned" =>
              /\ Reported(diff.differences, "added") =
                    Reported(diff.prev.differences, "removed")
              /\ Reported(diff.differences, "removed") =
                    Reported(diff.prev.differences, "added")
              /\ Reported(diff.differences, "changed") =
                    Reported(diff.prev.differences, "changed")

C12_Witness ==
    /\ diff.prev # NoDiffRun
    /\ diff.pc = "returned"
    /\ Reported(diff.differences, "added") # {}
    /\ Reported(diff.differences, "removed") # {}
    /\ Reported(diff.differences, "added") # Reported(diff.differences, "removed")

\* C13 as stated: with a target release that exists, every contract of the
\* fresh or of the target document is at most once in the result, as added
\* iff only the fresh document holds it, as removed iff only the target
\* holds it, as changed iff both hold it with different digests, and not
\* at all iff both hold it with the same digest; the result names no
\* other contract.
C13_DiffClassification ==
    (diff.pc = "returned" /\ diff.target \in ValidBuildInfos) =>
        LET F == ContractsOf(diff.fresh)
            T == ContractsOf(diff.target)
            d == diff.differences
            At(c) == {i \in DOMAIN d : d[i].path = c.path /\ d[i].name = c.name}
        IN  /\ \A c \in F \cup T :
                  /\ Cardinality(At(c)) <= 1
                  /\ c \in Reported(d, "added") <=> (c \in F \ T)
                  /\ c \in Reported(d, "removed") <=> (c \in T \ F)
                  /\ c \in Reported(d, "changed") <=>
                        (c \in F \cap T /\ DigestOf(diff.fresh, c) # DigestOf(diff.target, c))
                  /\ At(c) = {} <=>
                        (c \in F \cap T /\ DigestOf(diff.fresh, c) = DigestOf(diff.target, c))
            /\ \A i \in DOMAIN d : [path |-> d[i].path, name |-> d[i].name] \in F \cup T

\* C14 as stated: with no target release, the diff of a valid document
\* returns, and reports each contract of the document once, as added, and
\* nothing else.
C14_DiffMissingTarget ==
    (DiffDone /\ diff.fresh \in ValidBuildInfos /\ diff.target = MissingBuildInfo) =>
        /\ diff.pc = "returned"
        /\ Reported(diff.differences, "added") = ContractsOf(diff.fresh)
        /\ Len(diff.differences) = Len(diff.fresh.contracts)
        /\ \A i \in DOMAIN diff.differences : diff.differences[i].status = "added"

\* ------------------------------------------------------------------------
\* Properties of generateReleasesSummariesAndTypings (SpecBuild)
\* ------------------------------------------------------------------------
\* every release is loaded and the summary computed
BuildSummarised == build.pc \in {"writeTs", "writeJson", "returned"}

SemanticTuples(tuples) ==
    SelectSeq(tuples, LAMBDA t : IsSemanticVersion(t.release))

C17_SummaryIndexConsistency ==
    build.pc = "returned" =>
        LET summary == sokoDir.generated.summaryJson
            InContracts(r, k) ==
                /\ RecordHas(summary.contracts, k)
                /\ r \in Range(RecordGet(summary.contracts, k))
            InReleases(r, k) ==
                /\ RecordHas(summary.releases, r)
                /\ k \in Range(RecordGet(summary.releases, r))
        IN  /\ summary # NoFile
            /\ \A r \in ReleaseNames \cup RecordKeys(summary.releases) :
                  \A k \in RecordKeys(summary.contracts)
                            \cup UNION {Range(summary.releases[i].value) :
                                           i \in DOMAIN summary.releases} :
                      InContracts(r, k) <=> InReleases(r, k)
            /\ \A r \in DOMAIN sokoDir.releases : RecordHas(summary.releases, r)

\* C18 as stated: when the build info of a release directory cannot be
\* loaded the build does not return and the summary files stay what they
\* were; with no release directory the build fails only when a directory
\* step of it fails, and when it returns the two indices persisted are
\* empty.
C18_AllOrNothingBuild ==
    /\ (\E r \in DOMAIN sokoDir.releases : sokoDir.releases[r].kind # "buildInfo") =>
          /\ build.pc \in {"idle", "stat", "readdir", "load", "thrown"}
          /\ build.pc # "idle" =>
                /\ sokoDir.generated.summaryTs = build.before.summaryTs
                /\ sokoDir.generated.summaryJson = build.before.summaryJson
    /\ (DOMAIN sokoDir.releases = {}) =>
          /\ build.pc = "thrown" => build.error \in {"mkdir", "readdir"}
          /\ build.pc = "returned" =>
                sokoDir.generated.summaryJson = SummaryFile(<<>>, <<>>)

\* ------------------------------------------------------------------------
\* Invariants of the stores, over pushes and pulls (SpecPull)
\* ------------------------------------------------------------------------
\* no pull is between its call and its return
PullAtRest == pull.pc \in {"idle", "returned", "thrown"}

\* the content of each tag of the store is stored under the id derived
\* from it
TagsPointToIds(store) ==
    \A f \in DOMAIN store.tags :
        /\ store.tags[f] \in Contents
        /\ FileName(ArtifactId(store.tags[f])) \in DOMAIN store.ids
        /\ store.ids[FileName(ArtifactId(store.tags[f]))] = store.tags[f]

\* each id of the store holds a content whose derived id it is
IdsAreDerived(store) ==
    \A f \in DOMAIN store.ids :
        /\ store.ids[f] \in Contents
        /\ f = FileName(ArtifactId(store.ids[f]))

\* C19 as stated: in the bucket after the pushes, and in the local project
\* whenever no pull is running, the content a tag resolves to is stored
\* in the same store under the ArtifactId derived from that content.
C19_TagPointsToExistingId ==
    /\ TagsPointToIds(bucket)
    /\ PullAtRest => TagsPointToIds(localFs)

\* C20 as stated: in the bucket and in the local project, every file
\* under an id holds a content whose derived ArtifactId is that id.
C20_IdImmutability ==
    /\ IdsAreDerived(bucket)
    /\ IdsAreDerived(localFs)

\* ------------------------------------------------------------------------
\* Properties of the digests (SpecHash)
\* ------------------------------------------------------------------------
\* the two lists hold the same items, each as many times
SameAbiMembers(a, b) ==
    /\ Len(a) = Len(b)
    /\ \A item \in Range(a) \cup Range(b) : Count(a, item) = Count(b, item)

\* C21 as stated: two contract entries with the same abi members, in any
\* order, the same bytecode object and the same metadata have the same
\* hashContract digest.
C21_DigestIgnoresAbiOrder ==
    (/\ hashing.hashes # <<>>
     /\ SameAbiMembers(hashing.first.abi, hashing.second.abi)
     /\ hashing.first.bytecode = hashing.second.bytecode
     /\ hashing.first.metadata = hashing.second.metadata) =>
        hashing.hashes[1] = hashing.hashes[2]

\* C27 as stated: the summary builder gives two contract entries equal
\* digests iff hashContract gives them equal digests.
C27_BuilderDigestIsContractDigest ==
    (hashing.hashes # <<>> /\ hashing.digests # <<>>) =>
        (hashing.digests[1] = hashing.digests[2]
            <=> hashing.hashes[1] = hashing.hashes[2])

\* ------------------------------------------------------------------------
\* Properties of the derivation of ids (SpecId)
\* ------------------------------------------------------------------------
\* C22 as stated: every derivation of the id of a document, by pushArtifact
\* or by retrieveArtifactId, on every call, gives the same ArtifactId.
C22_OneIdPerContent ==
    \A i, j \in DOMAIN idCalls.derived :
        idCalls.derived[i].id = idCalls.derived[j].id

\* ------------------------------------------------------------------------
\* Properties of generateStructuredDataForArtifacts (SpecList)
\* ------------------------------------------------------------------------
\* the rows of the project with the column equal to the value
RowsWith(project, column, value) ==
    {i \in DOMAIN listing.metadatas :
        /\ listing.metadatas[i].Project = project
        /\ listing.metadatas[i][column] = value}

\* C29 as stated: the rows returned hold exactly one row for each local
\* tag of every project, and for every id stored under a project at least
\* one row of that project with that id.
C29_ListingIsCompletePerProject ==
    listing.pc = "returned" =>
        \A p \in DOMAIN Projects :
            /\ \A f \in DOMAIN listing.root[p].tags :
                  Cardinality(RowsWith(Projects[p], "Tag", ReplaceJson(f))) = 1
            /\ \A f \in DOMAIN listing.root[p].ids :
                  RowsWith(Projects[p], "ID", ReplaceJson(f)) # {}

\* ------------------------------------------------------------------------
\* Properties of isSemanticVersion (SpecClassify)
\* ------------------------------------------------------------------------
\* an optional leading "v", then one to three components between dots,
\* each a run of one digit or more
ShapedAsSemanticVersion(s) ==
    LET parts == SplitDots(IF s # <<>> /\ Head(s) = "v" THEN Tail(s) ELSE s)
    IN  /\ Len(parts) \in 1..3
        /\ \A i \in DOMAIN parts : parts[i] # <<>> /\ AllDigits(parts[i])

\* C28 as stated: isSemanticVersion(s) is true iff s is an optional leading
\* "v" followed by one to three components between dots, each exactly a
\* non-negative integer.
C28_ReleaseNameClassification ==
    classify.called => (classify.result <=> ShapedAsSemanticVersion(classify.name))

\* ------------------------------------------------------------------------
\* Order of the results of pull (SpecPull)
\* ------------------------------------------------------------------------
\* the list holds, once each and in the order of the candidates, the
\* candidates whose promise ended in the state
ListedInCandidateOrder(list, candidates, promises, state) ==
    /\ Range(list) = {candidates[i] : i \in {j \in DOMAIN candidates :
                                                promises[j].state = state}}
    /\ \A i, j \in DOMAIN list :
          i < j => \E a, b \in DOMAIN candidates :
                      a < b /\ candidates[a] = list[i] /\ candidates[b] = list[j]

\* C23: whatever the order in which the downloads and the writes of the
\* items ended, the pulled and failed lists of a returned pull hold the
\* candidates that were fulfilled and rejected, in the order of the
\* candidate list.
C23_ResultInCandidateOrder ==
    pull.pc = "returned" =>
        /\ ListedInCandidateOrder(pull.result.pulledTags, pull.filteredTagsToDownload,
                                  pull.tagsPromises, "fulfilled")
        /\ ListedInCandidateOrder(pull.result.failedTags, pull.filteredTagsToDownload,
                                  pull.tagsPromises, "rejected")
        /\ ListedInCandidateOrder(pull.result.pulledIds, pull.filteredIdsToDownload,
                                  pull.idsPromises, "fulfilled")
        /\ ListedInCandidateOrder(pull.result.failedIds, pull.filteredIdsToDownload,
                                  pull.idsPromises, "rejected")

\* two tags were pulled, the later candidate having settled first
C23_Witness ==
    /\ pull.pc = "returned"
    /\ Len(pull.result.pulledTags) >= 2
    /\ Len(hist.settled) = 2
    /\ hist.settled[1] = <<"tags", pull.result.pulledTags[2]>>
    /\ hist.settled[2] = <<"tags", pull.result.pulledTags[1]>>

\* ------------------------------------------------------------------------
\* Two concurrent pushArtifact runs (SpecRace)
\* ------------------------------------------------------------------------
\* C24: a run reports a conflict only when it is not forced and the tag
\* object is in the bucket at the moment its check is answered, whatever
\* another run is doing, and the tag write of a run leaves the tag on the
\* content of that run: the last tag write decides.
C24_ConcurrentPushesRace ==
    /\ [][\A p \in RacePushers :
            (push[p].pc = "hasTag" /\ push'[p].pc = "thrown"
                /\ push'[p].error = "conflict") =>
                (~push[p].force /\ FileName(push[p].tag) \in DOMAIN bucket.tags)]_vars
    /\ [][\A p \in RacePushers :
            (push[p].pc = "hasTag" /\ push'[p].pc = "putId") =>
                (push[p].force \/ FileName(push[p].tag) \notin DOMAIN bucket.tags)]_vars
    /\ [][\A p \in RacePushers :
            (push[p].pc = "copyTag" /\ push'[p].pc = "returned") =>
                bucket'.tags[FileName(push[p].tag)] = push[p].content]_vars

\* both runs, not forced, for one tag that was not in the bucket and two
\* documents, returned; the tag holds one of the two documents
C24_Witness ==
    /\ pushes = 2
    /\ \A p \in RacePushers :
          /\ push[p].pc = "returned"
          /\ ~push[p].force
          /\ push[p].tag = <<"v">>
          /\ FileName(<<"v">>) \notin DOMAIN push[p].before.tags
    /\ push[1].content # push[2].content
    /\ bucket.tags[FileName(<<"v">>)] = push[1].content

\* ------------------------------------------------------------------------
\* Order of the two writes of uploadArtifact (SpecPush)
\* ------------------------------------------------------------------------
\* C26: in every state during and after an upload the content of each tag
\* object is held by the id object derived from it, so a tag resolves to
\* the document of a run only if its id object holds it; and a failure of
\* the tag step leaves the id object in the bucket.
C26_IdBeforeTag ==
    /\ [](/\ TagsPointToIds(bucket)
          /\ \A p \in Pushers :
                (/\ push[p].pc \in {"putId", "copyTag", "returned", "thrown"}
                 /\ push[p].tag # NoTag
                 /\ HasArtifactByTag(bucket, push[p].tag)
                 /\ ~HasArtifactByTag(push[p].before, push[p].tag)) =>
                    /\ DownloadArtifactByTag(bucket, push[p].tag) = push[p].content
                    /\ HasArtifactById(bucket, push[p].artifactId)
                    /\ DownloadArtifactById(bucket, push[p].artifactId) = push[p].content)
    /\ [][\A p \in Pushers :
            (push[p].pc = "copyTag" /\ push'[p].pc = "thrown") =>
                /\ bucket' = bucket
                /\ HasArtifactById(bucket', push[p].artifactId)
                /\ DownloadArtifactById(bucket', push[p].artifactId) = push[p].content]_vars

\* the tag step of an upload to an empty bucket failed: the id object is
\* there and the tag object is not
C26_Witness ==
    \E p \in Pushers :
        /\ push[p].pc = "thrown"
        /\ push[p].error = "upload"
        /\ push[p].tag # NoTag
        /\ push[p].before = EmptyStore
        /\ HasArtifactById(bucket, push[p].artifactId)
        /\ DownloadArtifactById(bucket, push[p].artifactId) = push[p].content
        /\ ~HasArtifactByTag(bucket, push[p].tag)

\* ------------------------------------------------------------------------
\* What pull writes (SpecPull)
\* ------------------------------------------------------------------------
\* the file of an item of the local store is what it was at the call
SameAsBefore(kind, name) ==
    IF FileName(name) \in DOMAIN hist.localBefore[kind]
    THEN /\ FileName(name) \in DOMAIN localFs[kind]
         /\ localFs[kind][FileName(name)] = hist.localBefore[kind][FileName(name)]
    ELSE FileName(name) \notin DOMAIN localFs[kind]

\* the names the remote listing of the run gave
Listed(kind) == IF kind = "tags" THEN Range(pull.remoteTags) ELSE Range(pull.remoteIds)

\* the files of the local store that are not what they were at the call
ChangedFiles(kind) ==
    {f \in DOMAIN localFs[kind] \cup DOMAIN hist.localBefore[kind] :
        \/ f \notin DOMAIN localFs[kind]
        \/ f \notin DOMAIN hist.localBefore[kind]
        \/ localFs[kind][f] # hist.localBefore[kind][f]}

\* C30: during and after a pull the bucket is what it was at the call; the
\* file of every item whose download failed was never written and is what
\* it was at the call, and the item is reported failed; a file is written
\* only for an item whose download answered, and only for a name of the
\* remote listing; no other file of the local store changed.
C30_FailedDownloadLeavesLocalUntouched ==
    pull.pc # "idle" =>
        /\ bucket = hist.bucketBefore
        /\ hist.failedDownloads \subseteq hist.downloads
        /\ \A kind \in Kinds :
              /\ \A d \in hist.failedDownloads :
                    d[1] = kind =>
                        /\ FileName(d[2]) \notin WritesOf(kind)
                        /\ SameAsBefore(kind, d[2])
                        /\ pull.pc = "returned" =>
                              d[2] \in Range(IF kind = "tags" THEN pull.result.failedTags
                                                               ELSE pull.result.failedIds)
              /\ WritesOf(kind) \subseteq
                    {FileName(d[2]) : d \in {e \in hist.downloads \ hist.failedDownloads : e[1] = kind}}
              /\ WritesOf(kind) \subseteq {FileName(x) : x \in Listed(kind)}
              /\ ChangedFiles(kind) \subseteq WritesOf(kind)

====
